---- MODULE Spec2Model ----
(***************************************************************************)
(* Verification model of the SCIM endpoint server's query-and-mutation    *)
(* core: the group and user PATCH engines and the filter push-down         *)
(* planner with its in-memory Prisma-filter evaluator.                     *)
(*                                                                         *)
(* JavaScript values are tagged records ([t |-> "string", s |-> ...]), so  *)
(* that typeof / Array.isArray / truthiness tests of the source can be     *)
(* translated literally.  Objects are functions from keys to values.       *)
(***************************************************************************)
EXTENDS Integers, Sequences, FiniteSets, TLC

VARIABLES
    gState,     \* GroupPatchState handed to GroupPatchEngine.apply by the caller
    gCfg,       \* GroupMemberPatchConfig
    gPhase,     \* "off" | "idle" | "running" | "returned" | "thrown"
    gWork,      \* apply's locals: displayName, externalId, members, rawPayload
    gPrev,      \* the locals before the operation handled last
    gLastOp,    \* the operation handled last in the loop of apply
    gN,         \* number of operations handled so far by this call
    gErr,       \* the PatchError thrown, NoError otherwise
    uState,     \* UserPatchState object of the caller of UserPatchEngine.apply
    uState0,    \* value of that object when apply was called
    uCfg,       \* PatchConfig
    uPhase,     \* "off" | "idle" | "running" | "returned" | "thrown"
    uWork,      \* apply's locals
    uPrev,      \* the locals before the operation handled last
    uLastOp,    \* the operation handled last in the loop of apply
    uN,         \* number of operations handled so far by this call
    uErr,       \* the PatchError thrown, NoError otherwise
    uResult,    \* the UserPatchResult returned
    fPhase,     \* "off" | "idle" | "built" | "listed"
    fKind,      \* "user" | "group": which builder was called
    fSrc,       \* the filter given to the builder
    fAst,       \* the AST parseScimFilter returned
    fResult,    \* the UserFilterResult / GroupFilterResult
    fRecord,    \* a stored record the list operation looks at
    fDbMatch,   \* the repository selected the record by dbWhere
    fListed,    \* the record's resource is in the list response
    sGroup,     \* the group row of the repository (NoRow when there is none)
    sUser,      \* the user row of the repository (NoRow when there is none)
    sReq        \* the PATCH requests in flight, by request number

gvars == <<gState, gCfg, gPhase, gWork, gPrev, gLastOp, gN, gErr>>

uvars == <<uState, uState0, uCfg, uPhase, uWork, uPrev, uLastOp, uN, uErr, uResult>>

fvars == <<fPhase, fKind, fSrc, fAst, fResult, fRecord, fDbMatch, fListed>>

svars == <<sGroup, sUser, sReq>>

vars == <<gvars, uvars, fvars, svars>>

-----------------------------------------------------------------------------
(* Bounds *)

\* Longest operation list one apply call handles.
MaxOps == 2

-----------------------------------------------------------------------------
(* JavaScript values *)

Undefined == [t |-> "undefined"]
Null == [t |-> "null"]
Str(s) == [t |-> "string", s |-> s]
Num(n) == [t |-> "number", n |-> n]
Bool(b) == [t |-> "boolean", b |-> b]
Arr(items) == [t |-> "array", items |-> items]
Obj(o) == [t |-> "object", o |-> o]

\* The empty object literal {}.
EmptyObj == [k \in {} |-> Undefined]

IsString(v) == v.t = "string"
IsArray(v) == v.t = "array"
\* typeof v === 'object' && v !== null (arrays are objects too)
IsObjectLike(v) == v.t \in {"object", "array"}

\* JavaScript truthiness: undefined, null, "", 0 and false are falsy.
Truthy(v) ==
    CASE v.t = "undefined" -> FALSE
      [] v.t = "null" -> FALSE
      [] v.t = "string" -> v.s # ""
      [] v.t = "number" -> v.n # 0
      [] v.t = "boolean" -> v.b
      [] OTHER -> TRUE

\* 'key' in v, for a value that passed the typeof-object test.
HasKey(v, key) == v.t = "object" /\ key \in DOMAIN v.o

\* v.key: undefined when the property is absent.
Get(v, key) == IF HasKey(v, key) THEN v.o[key] ELSE Undefined

\* Strings of the model that contain upper-case letters, with their
\* String.prototype.toLowerCase.
EnterpriseUrn == "urn:ietf:params:scim:schemas:extension:enterprise:2.0:User"

UpperStrings ==
    ("U1" :> "u1") @@ ("A" :> "a") @@ ("Members" :> "members") @@ ("DISPLAYNAME" :> "displayname")
    @@ ("displayName" :> "displayname") @@ ("DisplayName" :> "displayname")
    @@ ("externalId" :> "externalid") @@ ("userName" :> "username")
    @@ ("UserName" :> "username") @@ ("Active" :> "active") @@ ("ID" :> "id")
    @@ ("Replace" :> "replace") @@ ("ADD" :> "add") @@ ("Remove" :> "remove")
    @@ ("Value" :> "value") @@ ("unknownField" :> "unknownfield")
    @@ ("Title" :> "title") @@ ("TITLE" :> "title") @@ ("nickName" :> "nickname")
    @@ ("Name" :> "name") @@ ("givenName" :> "givenname")
    @@ ("familyName" :> "familyname") @@ ("middleName" :> "middlename")
    @@ ("name.givenName" :> "name.givenname") @@ ("Name.middleName" :> "name.middlename")
    @@ ("True" :> "true") @@ ("False" :> "false") @@ ("TRUE" :> "true")
    @@ (EnterpriseUrn :> "urn:ietf:params:scim:schemas:extension:enterprise:2.0:user")

LowerStrings ==
    {"", "u1", "u2", "members", "displayname", "externalid", "username", "active", "id",
     "replace", "add", "remove", "bogus", "value", "display", "type", "unknownfield",
     "title", "nickname", "name", "givenname", "familyname", "middlename", "emails",
     "name.givenname", "name.middlename", "title.name", "true", "false", "maybe", "work", "home",
     "manager", "department", "custom", "jdoe@example.com", "new@example.com",
     "other@example.com", "schemas", "a", "userid", "0", "1", "2", "3", "other", "emails.value", "emails.type",
     "urn:ietf:params:scim:schemas:extension:enterprise:2.0:user"}

\* Defined on the strings above only; TLC stops on any other string.
ToLowerCase(s) ==
    CASE s \in DOMAIN UpperStrings -> UpperStrings[s]
      [] s \in LowerStrings -> s

-----------------------------------------------------------------------------
(* PATCH operations and paths *)

\* A path string, kept in its parts: "attr", "attr[fattr eq \"fval\"]",
\* "attr[...].sub", "attr.sub" or "urn:attr".  present = FALSE is an omitted
\* path.
Path(attr) == [present |-> TRUE, urn |-> "", attr |-> attr, hasFilter |-> FALSE,
               fattr |-> "", fval |-> "", sub |-> ""]
FilterPath(attr, fattr, fval) == [Path(attr) EXCEPT !.hasFilter = TRUE,
                                                    !.fattr = fattr, !.fval = fval]
ValuePath(attr, fattr, fval, sub) == [FilterPath(attr, fattr, fval) EXCEPT !.sub = sub]
DotPath(attr, sub) == [Path(attr) EXCEPT !.sub = sub]
ExtensionPath(urn, attr) == [Path(attr) EXCEPT !.urn = urn]
NoPath == [Path("") EXCEPT !.present = FALSE]

\* operation.path?.toLowerCase(): every character of the path is lowered,
\* the attribute name and the text inside the brackets alike.
PathToLowerCase(p) ==
    [p EXCEPT !.urn = ToLowerCase(p.urn), !.attr = ToLowerCase(p.attr),
              !.fattr = ToLowerCase(p.fattr), !.fval = ToLowerCase(p.fval),
              !.sub = ToLowerCase(p.sub)]

\* !path: the path is undefined or the empty string.
PathFalsy(p) == ~p.present \/ (p.urn = "" /\ p.attr = "" /\ ~p.hasFilter /\ p.sub = "")

\* path === name, for a plain attribute name.
PathIs(p, name) == p.present /\ p.urn = "" /\ p.attr = name /\ ~p.hasFilter /\ p.sub = ""

Op(op, path, value) == [op |-> op, path |-> path, value |-> value]

\* No operation handled yet.
NoOp == Op("", NoPath, Undefined)

PatchError(status, scimType, message) ==
    [status |-> status, scimType |-> scimType, message |-> message]

NoError == PatchError(0, "", "")

-----------------------------------------------------------------------------
(* GroupPatchEngine: member utilities *)

Member(value, display, type) == [value |-> value, display |-> display, type |-> type]

\* Outcome of a handler: the new locals, or the PatchError it threw.
Ok(st) == [ok |-> TRUE, st |-> st, err |-> NoError]
Throw(st, err) == [ok |-> FALSE, st |-> st, err |-> err]

\* toMemberDto's guard: a member must be an object that has a value property.
IsMemberInput(m) == Truthy(m) /\ IsObjectLike(m) /\ HasKey(m, "value")

ToMemberDto(m) == Member(Get(m, "value"), Get(m, "display"), Get(m, "type"))

RECURSIVE EnsureUniqueFrom(_, _)
\* The Map of ensureUniqueMembers: a key keeps the position of its first set()
\* and the value of its last set().
EnsureUniqueFrom(seen, rest) ==
    IF rest = <<>> THEN seen
    ELSE LET m == Head(rest)
             hit == {i \in 1..Len(seen) : seen[i].value = m.value}
         IN  IF hit = {}
             THEN EnsureUniqueFrom(Append(seen, m), Tail(rest))
             ELSE EnsureUniqueFrom([i \in 1..Len(seen) |-> IF i \in hit THEN m ELSE seen[i]],
                                   Tail(rest))

RECURSIVE KeepFirstFrom(_, _)
KeepFirstFrom(seen, rest) ==
    IF rest = <<>> THEN seen
    ELSE IF \E i \in 1..Len(seen) : seen[i].value = Head(rest).value
         THEN KeepFirstFrom(seen, Tail(rest))
         ELSE KeepFirstFrom(Append(seen, Head(rest)), Tail(rest))

\* Mutant of EnsureUniqueMembers: the first entry of a value is the one kept.
EnsureUniqueMembers_KeepFirst(members) == KeepFirstFrom(<<>>, members)

\* ensureUniqueMembers
EnsureUniqueMembers(members) == EnsureUniqueFrom(<<>>, members)

\* members.filter(m => keep(m)), order preserved.
RECURSIVE FilterMembers(_, _)
FilterMembers(members, removed) ==
    IF members = <<>> THEN <<>>
    ELSE IF Head(members).value \in removed
         THEN FilterMembers(Tail(members), removed)
         ELSE <<Head(members)>> \o FilterMembers(Tail(members), removed)

\* Object.entries keys of an array are its indices as strings.
IndexKey(i) == CASE i = 1 -> "0" [] i = 2 -> "1" [] i = 3 -> "2" [] OTHER -> "3"

\* Object.entries(value) of an object or an array, as a function key -> value.
Entries(v) ==
    IF v.t = "object" THEN v.o
    ELSE [k \in {IndexKey(i) : i \in 1..Len(v.items)} |->
            v.items[CHOOSE i \in 1..Len(v.items) : IndexKey(i) = k]]

-----------------------------------------------------------------------------
(* GroupPatchEngine: handleReplace, handleAdd, handleRemove *)

\* Mutant of ReplaceNoPathObject: schemas is copied into the payload too.
ReplaceNoPathObject_CopyingSchemas(obj, w) ==
    LET newDisplayName == IF IsString(Get(obj, "displayName"))
                          THEN Get(obj, "displayName") ELSE w.displayName
        newExternalId == IF HasKey(obj, "externalId")
                         THEN (IF IsString(Get(obj, "externalId"))
                               THEN Get(obj, "externalId") ELSE Null)
                         ELSE w.externalId
        replaceMembers == IsArray(Get(obj, "members"))
        items == IF replaceMembers THEN Get(obj, "members").items ELSE <<>>
        entries == Entries(obj)
        others == DOMAIN entries \ {"displayName", "externalId", "members"}
        updatedPayload == [k \in DOMAIN w.rawPayload \cup others |->
                              IF k \in others THEN entries[k] ELSE w.rawPayload[k]]
    IN  IF \E i \in 1..Len(items) : ~IsMemberInput(items[i])
        THEN Throw(w, PatchError(400, "invalidValue", "member needs value"))
        ELSE Ok([displayName |-> newDisplayName,
                 externalId |-> newExternalId,
                 members |-> IF replaceMembers
                             THEN EnsureUniqueMembers([i \in 1..Len(items) |-> ToMemberDto(items[i])])
                             ELSE w.members,
                 rawPayload |-> updatedPayload])

\* The no-path replace with an object value.
ReplaceNoPathObject(obj, w) ==
    LET newDisplayName == IF IsString(Get(obj, "displayName"))
                          THEN Get(obj, "displayName") ELSE w.displayName
        newExternalId == IF HasKey(obj, "externalId")
                         THEN (IF IsString(Get(obj, "externalId"))
                               THEN Get(obj, "externalId") ELSE Null)
                         ELSE w.externalId
        replaceMembers == IsArray(Get(obj, "members"))
        items == IF replaceMembers THEN Get(obj, "members").items ELSE <<>>
        entries == Entries(obj)
        others == DOMAIN entries \ {"displayName", "externalId", "members", "schemas"}
        updatedPayload == [k \in DOMAIN w.rawPayload \cup others |->
                              IF k \in others THEN entries[k] ELSE w.rawPayload[k]]
    IN  IF \E i \in 1..Len(items) : ~IsMemberInput(items[i])
        THEN Throw(w, PatchError(400, "invalidValue", "member needs value"))
        ELSE Ok([displayName |-> newDisplayName,
                 externalId |-> newExternalId,
                 members |-> IF replaceMembers
                             THEN EnsureUniqueMembers([i \in 1..Len(items) |-> ToMemberDto(items[i])])
                             ELSE w.members,
                 rawPayload |-> updatedPayload])

\* Mutant of HandleReplace: path members appends the new entries to the
\* current list instead of putting them in its place.
HandleReplace_MergingMembers(operation, w) ==
    LET path == PathToLowerCase(operation.path)
        value == operation.value
    IN  IF PathFalsy(path)
        THEN IF IsString(value) THEN Ok([w EXCEPT !.displayName = value])
             ELSE IF IsObjectLike(value) THEN ReplaceNoPathObject(value, w)
             ELSE Throw(w, PatchError(400, "invalidValue", "replace needs string or object"))
        ELSE IF PathIs(path, "displayname")
        THEN IF ~IsString(value)
             THEN Throw(w, PatchError(400, "invalidValue", "displayName needs string"))
             ELSE Ok([w EXCEPT !.displayName = value])
        ELSE IF PathIs(path, "externalid")
        THEN Ok([w EXCEPT !.externalId = IF IsString(value) THEN value ELSE Null])
        ELSE IF PathIs(path, "members")
        THEN IF ~IsArray(value)
             THEN Throw(w, PatchError(400, "invalidValue", "members needs array"))
             ELSE IF \E i \in 1..Len(value.items) : ~IsMemberInput(value.items[i])
             THEN Throw(w, PatchError(400, "invalidValue", "member needs value"))
             ELSE Ok([w EXCEPT !.members =
                         @ \o [i \in 1..Len(value.items) |-> ToMemberDto(value.items[i])]])
        ELSE Throw(w, PatchError(400, "invalidPath", "replace path not supported"))

\* handleReplace
HandleReplace(operation, w) ==
    LET path == PathToLowerCase(operation.path)
        value == operation.value
    IN  IF PathFalsy(path)
        THEN IF IsString(value) THEN Ok([w EXCEPT !.displayName = value])
             ELSE IF IsObjectLike(value) THEN ReplaceNoPathObject(value, w)
             ELSE Throw(w, PatchError(400, "invalidValue", "replace needs string or object"))
        ELSE IF PathIs(path, "displayname")
        THEN IF ~IsString(value)
             THEN Throw(w, PatchError(400, "invalidValue", "displayName needs string"))
             ELSE Ok([w EXCEPT !.displayName = value])
        ELSE IF PathIs(path, "externalid")
        THEN Ok([w EXCEPT !.externalId = IF IsString(value) THEN value ELSE Null])
        ELSE IF PathIs(path, "members")
        THEN IF ~IsArray(value)
             THEN Throw(w, PatchError(400, "invalidValue", "members needs array"))
             ELSE IF \E i \in 1..Len(value.items) : ~IsMemberInput(value.items[i])
             THEN Throw(w, PatchError(400, "invalidValue", "member needs value"))
             ELSE Ok([w EXCEPT !.members = EnsureUniqueMembers(
                         [i \in 1..Len(value.items) |-> ToMemberDto(value.items[i])])])
        ELSE Throw(w, PatchError(400, "invalidPath", "replace path not supported"))

\* Mutant of AddGateRejects: the gate lets an array of two entries through.
AddGateRejects_OffByOne(allowMultiMemberAdd, value) ==
    ~allowMultiMemberAdd /\ Len(value) > 2

\* The multi-member gate of handleAdd.
AddGateRejects(allowMultiMemberAdd, value) ==
    ~allowMultiMemberAdd /\ Len(value) > 1

\* Mutant of HandleAdd: the added entries are also written to the payload.
HandleAdd_WritingPayload(operation, w, allowMultiMemberAdd) ==
    LET path == PathToLowerCase(operation.path)
        value == IF IsArray(operation.value) THEN operation.value.items
                 ELSE <<operation.value>>
    IN  IF ~PathFalsy(path) /\ ~PathIs(path, "members")
        THEN Throw(w, PatchError(400, "invalidPath", "add path not supported"))
        ELSE IF ~Truthy(operation.value)
        THEN Throw(w, PatchError(400, "invalidValue", "add needs value"))
        ELSE IF AddGateRejects(allowMultiMemberAdd, value)
        THEN Throw(w, PatchError(400, "invalidValue", "multi-member add not allowed"))
        ELSE IF \E i \in 1..Len(value) : ~IsMemberInput(value[i])
        THEN Throw(w, PatchError(400, "invalidValue", "member needs value"))
        ELSE Ok([w EXCEPT !.members = EnsureUniqueMembers(
                              w.members \o [i \in 1..Len(value) |-> ToMemberDto(value[i])]),
                          !.rawPayload = ("members" :> operation.value) @@ w.rawPayload])

\* handleAdd
HandleAdd(operation, w, allowMultiMemberAdd) ==
    LET path == PathToLowerCase(operation.path)
        value == IF IsArray(operation.value) THEN operation.value.items
                 ELSE <<operation.value>>
    IN  IF ~PathFalsy(path) /\ ~PathIs(path, "members")
        THEN Throw(w, PatchError(400, "invalidPath", "add path not supported"))
        ELSE IF ~Truthy(operation.value)
        THEN Throw(w, PatchError(400, "invalidValue", "add needs value"))
        ELSE IF AddGateRejects(allowMultiMemberAdd, value)
        THEN Throw(w, PatchError(400, "invalidValue", "multi-member add not allowed"))
        ELSE IF \E i \in 1..Len(value) : ~IsMemberInput(value[i])
        THEN Throw(w, PatchError(400, "invalidValue", "member needs value"))
        ELSE Ok([w EXCEPT !.members = EnsureUniqueMembers(
                    w.members \o [i \in 1..Len(value) |-> ToMemberDto(value[i])])])

\* path?.match(/^members\[value\s+eq\s+"?([^"]+)"?\]$/i) on the lower-cased path.
MemberPathMatch(path) ==
    path.present /\ path.urn = "" /\ ToLowerCase(path.attr) = "members" /\ path.hasFilter
    /\ ToLowerCase(path.fattr) = "value" /\ path.fval # "" /\ path.sub = ""

\* Mutant of HandleRemove: the value array is not gated by its length.
HandleRemove_Ungated(operation, w, allowMultiMemberRemove, allowRemoveAllMembers) ==
    LET path == PathToLowerCase(operation.path)
        value == operation.value
        items == IF IsArray(value) THEN value.items ELSE <<>>
        membersToRemove == {Get(items[i], "value") :
                               i \in {j \in 1..Len(items) :
                                        Truthy(items[j]) /\ IsObjectLike(items[j])
                                        /\ HasKey(items[j], "value")}}
    IN  IF Truthy(value) /\ IsArray(value) /\ Len(items) > 0
        THEN IF FALSE
             THEN Throw(w, PatchError(400, "invalidValue", "multi-member remove not allowed"))
             ELSE Ok([w EXCEPT !.members = FilterMembers(w.members, membersToRemove)])
        ELSE IF MemberPathMatch(path)
        THEN Ok([w EXCEPT !.members = FilterMembers(w.members, {Str(path.fval)})])
        ELSE IF PathIs(path, "members")
        THEN IF ~allowRemoveAllMembers
             THEN Throw(w, PatchError(400, "invalidValue", "remove-all not allowed"))
             ELSE Ok([w EXCEPT !.members = <<>>])
        ELSE Throw(w, PatchError(400, "invalidPath", "remove path not supported"))

\* handleRemove
HandleRemove(operation, w, allowMultiMemberRemove, allowRemoveAllMembers) ==
    LET path == PathToLowerCase(operation.path)
        value == operation.value
        items == IF IsArray(value) THEN value.items ELSE <<>>
        membersToRemove == {Get(items[i], "value") :
                               i \in {j \in 1..Len(items) :
                                        Truthy(items[j]) /\ IsObjectLike(items[j])
                                        /\ HasKey(items[j], "value")}}
    IN  IF Truthy(value) /\ IsArray(value) /\ Len(items) > 0
        THEN IF ~allowMultiMemberRemove /\ Len(items) > 1
             THEN Throw(w, PatchError(400, "invalidValue", "multi-member remove not allowed"))
             ELSE Ok([w EXCEPT !.members = FilterMembers(w.members, membersToRemove)])
        ELSE IF MemberPathMatch(path)
        THEN Ok([w EXCEPT !.members = FilterMembers(w.members, {Str(path.fval)})])
        ELSE IF PathIs(path, "members")
        THEN IF ~allowRemoveAllMembers
             THEN Throw(w, PatchError(400, "invalidValue", "remove-all not allowed"))
             ELSE Ok([w EXCEPT !.members = <<>>])
        ELSE Throw(w, PatchError(400, "invalidPath", "remove path not supported"))

\* The loop body with the operation token compared as sent.
GroupHandle_CaseSensitive(operation, w, config) ==
    LET op == operation.op
    IN  IF op \notin {"add", "replace", "remove"}
        THEN Throw(w, PatchError(400, "invalidValue", "op not supported"))
        ELSE IF op = "replace" THEN HandleReplace(operation, w)
        ELSE IF op = "add" THEN HandleAdd(operation, w, config.allowMultiMemberAdd)
        ELSE HandleRemove(operation, w, config.allowMultiMemberRemove,
                          config.allowRemoveAllMembers)

\* One iteration of the loop of GroupPatchEngine.apply.  An operation sent
\* without an op is the one whose op is the empty string: both are falsy.
GroupHandle(operation, w, config) ==
    LET op == ToLowerCase(operation.op)
    IN  IF op \notin {"add", "replace", "remove"}
        THEN Throw(w, PatchError(400, "invalidValue", "op not supported"))
        ELSE IF op = "replace" THEN HandleReplace(operation, w)
        ELSE IF op = "add" THEN HandleAdd(operation, w, config.allowMultiMemberAdd)
        ELSE HandleRemove(operation, w, config.allowMultiMemberRemove,
                          config.allowRemoveAllMembers)

-----------------------------------------------------------------------------
(* GroupPatchEngine: inputs *)

\* Member objects as a client sends them.
MemberObj(value, display) == Obj(("value" :> Str(value)) @@ ("display" :> Str(display)))
MemberRef(value) == Obj("value" :> Str(value))
MemberTyped(value, type) == Obj(("value" :> Str(value)) @@ ("type" :> Str(type)))

\* Stored members, as memberRecordsToDtos builds them.
Stored(value, display) == Member(Str(value), Str(display), Undefined)
StoredBare(value) == Member(Str(value), Undefined, Undefined)

GroupLocals(displayName, externalId, members, rawPayload) ==
    [displayName |-> displayName, externalId |-> externalId,
     members |-> members, rawPayload |-> rawPayload]

\* Group states the service passes to apply.  createGroupForEndpoint and
\* replaceGroupForEndpoint store dto.members as sent, without de-duplication,
\* so a stored list may name one value twice.
GroupStates ==
    { GroupLocals(Str("Engineering"), Str("grp-001"),
                  <<Stored("u1", "A"), Stored("u2", "B")>>, EmptyObj),
      GroupLocals(Str("Engineering"), Null,
                  <<Stored("u1", "A"), StoredBare("U1"), Stored("u2", "B")>>,
                  ("custom" :> Str("old"))),
      GroupLocals(Str("Ops"), Null, <<>>, EmptyObj),
      GroupLocals(Str("Ops"), Str("grp-001"),
                  <<Stored("u1", "A"), Stored("u1", "B")>>, EmptyObj) }

GroupConfigs ==
    [allowMultiMemberAdd : BOOLEAN, allowMultiMemberRemove : BOOLEAN,
     allowRemoveAllMembers : BOOLEAN]

GroupReplaceOps ==
    { Op("replace", NoPath, Str("Sales")),
      Op("replace", NoPath,
         Obj(("displayName" :> Str("Sales")) @@ ("externalId" :> Num(7))
             @@ ("members" :> Arr(<<MemberObj("u2", "C"), MemberRef("u2")>>))
             @@ ("custom" :> Str("data")) @@ ("schemas" :> Arr(<<>>)))),
      Op("replace", NoPath, Obj("custom" :> Str("data"))),
      Op("replace", NoPath, Num(42)),
      Op("replace", NoPath, Null),
      Op("replace", NoPath, Obj(("displayName" :> Num(1)) @@ ("members" :> Str("bad")))),
      Op("replace", NoPath, Obj("members" :> Arr(<<Obj("display" :> Str("C"))>>))),
      Op("Replace", Path("DISPLAYNAME"), Str("Sales")),
      Op("replace", Path("displayName"), Num(42)),
      Op("replace", Path("externalId"), Str("ext-999")),
      Op("replace", Path("externalId"), Num(42)),
      Op("replace", Path("members"), Arr(<<MemberObj("u1", "C"), MemberRef("U1"), MemberRef("u1")>>)),
      Op("replace", Path("Members"), Arr(<<MemberTyped("u2", "User")>>)),
      Op("replace", Path("members"), Str("bad")),
      Op("replace", Path("unknownField"), Str("x")),
      Op("replace", FilterPath("members", "value", "u1"), Arr(<<MemberRef("u2")>>)) }

GroupAddOps ==
    { Op("add", Path("members"), Arr(<<MemberRef("u2")>>)),
      Op("add", NoPath, Arr(<<MemberObj("U1", "C")>>)),
      Op("ADD", Path("Members"), Arr(<<MemberObj("u1", "C"), MemberRef("u2")>>)),
      Op("add", NoPath, Arr(<<MemberRef("U1"), MemberRef("U1")>>)),
      Op("add", Path("members"), MemberObj("u2", "C")),
      Op("add", Path("members"), Arr(<<>>)),
      Op("add", Path("members"), Undefined),
      Op("add", Path("members"), Arr(<<Obj("display" :> Str("C"))>>)),
      Op("add", Path("displayName"), Str("x")),
      Op("add", Path("unknownField"), Arr(<<MemberRef("u1"), MemberRef("u2")>>)) }

GroupRemoveOps ==
    { Op("remove", Path("members"), Arr(<<MemberRef("u1")>>)),
      Op("remove", Path("members"), Arr(<<MemberRef("u1"), MemberRef("u2")>>)),
      Op("remove", Path("members"), Undefined),
      Op("remove", Path("members"), MemberRef("u1")),
      Op("remove", Path("members"), Arr(<<>>)),
      Op("Remove", FilterPath("members", "value", "u1"), Undefined),
      Op("remove", FilterPath("Members", "Value", "U1"), Undefined),
      Op("remove", FilterPath("members", "display", "A"), Undefined),
      Op("remove", Path("displayName"), Undefined),
      Op("remove", Path("unknownField"), Arr(<<MemberRef("u2")>>)),
      Op("remove", NoPath, Undefined) }

GroupBadOps ==
    { Op("bogus", Path("members"), Arr(<<MemberRef("u1")>>)),
      Op("", NoPath, Undefined) }

GroupOps == GroupReplaceOps \cup GroupAddOps \cup GroupRemoveOps \cup GroupBadOps

-----------------------------------------------------------------------------
(* GroupPatchEngine.apply as a state machine: one step per loop iteration *)

GroupOff ==
    /\ gState = GroupLocals(Str(""), Null, <<>>, EmptyObj)
    /\ gCfg = [allowMultiMemberAdd |-> FALSE, allowMultiMemberRemove |-> FALSE,
               allowRemoveAllMembers |-> FALSE]
    /\ gPhase = "off"
    /\ gWork = gState
    /\ gPrev = gState
    /\ gLastOp = NoOp
    /\ gN = 0
    /\ gErr = NoError

GroupStart ==
    /\ gState \in GroupStates
    /\ gCfg \in GroupConfigs
    /\ gPhase = "idle"
    /\ gWork = gState
    /\ gPrev = gState
    /\ gLastOp = NoOp
    /\ gN = 0
    /\ gErr = NoError

\* Entry of apply: the locals are copies of the caller's state.
GroupApplyBegin ==
    /\ gPhase = "idle"
    /\ gPhase' = "running"
    /\ gWork' = GroupLocals(gState.displayName, gState.externalId,
                            gState.members, gState.rawPayload)
    /\ gPrev' = gWork'
    /\ UNCHANGED <<gState, gCfg, gLastOp, gN, gErr>>
    /\ UNCHANGED <<uvars, fvars, svars>>

\* One iteration of the for loop; a throw ends the call.
GroupApplyOp(operation) ==
    /\ gPhase = "running"
    /\ gN < MaxOps
    /\ LET r == GroupHandle(operation, gWork, gCfg)
       IN  /\ gPhase' = IF r.ok THEN "running" ELSE "thrown"
           /\ gWork' = r.st
           /\ gErr' = r.err
    /\ gPrev' = gWork
    /\ gLastOp' = operation
    /\ gN' = gN + 1
    /\ UNCHANGED <<gState, gCfg>>
    /\ UNCHANGED <<uvars, fvars, svars>>

\* End of the loop: apply returns its locals as the GroupPatchResult.
GroupApplyReturn ==
    /\ gPhase = "running"
    /\ gPhase' = "returned"
    /\ UNCHANGED <<gState, gCfg, gWork, gPrev, gLastOp, gN, gErr>>
    /\ UNCHANGED <<uvars, fvars, svars>>

NextGroup ==
    \/ GroupApplyBegin
    \/ \E operation \in GroupOps : GroupApplyOp(operation)
    \/ GroupApplyReturn


-----------------------------------------------------------------------------
(* Group engine: properties *)

NoDuplicateValues(members) ==
    \A i, j \in 1..Len(members) : members[i].value = members[j].value => i = j

GroupOpKind(operation) == ToLowerCase(operation.op)

\* An operation has been handled by the running call.
GroupHandled == gLastOp # NoOp /\ gN > 0

\* C4: for every input group state and every operation sequence on which
\* GroupPatchEngine.apply returns, the returned member list contains no two
\* entries with the same value.
C4_ReturnedMembersUnique ==
    gPhase = "returned" => NoDuplicateValues(gWork.members)

\* An add on path members (any letter case) or without a path whose value is
\* an array of more than one entry.
IsMultiMemberAdd(operation) ==
    /\ GroupOpKind(operation) = "add"
    /\ \/ PathFalsy(operation.path)
       \/ PathIs(PathToLowerCase(operation.path), "members")
    /\ IsArray(operation.value)
    /\ Len(operation.value.items) > 1

\* An add of one entry: an array of length 1 or a single member object.
IsSingleMemberAdd(operation) ==
    /\ GroupOpKind(operation) = "add"
    /\ \/ IsArray(operation.value) /\ Len(operation.value.items) = 1
       \/ operation.value.t = "object"

\* C5: with allowMultiMemberAdd = false an add (path members or no path) of an
\* array of more than one entry throws PatchError 400 invalidValue whatever
\* operations precede it, and adds no member; an add of a single entry is not
\* rejected by this gate.
C5_MultiMemberAddGate ==
    /\ (GroupHandled /\ IsMultiMemberAdd(gLastOp) /\ ~gCfg.allowMultiMemberAdd)
          => /\ gPhase = "thrown"
             /\ gErr.status = 400
             /\ gErr.scimType = "invalidValue"
             /\ gWork.members = gPrev.members
    /\ (GroupHandled /\ IsSingleMemberAdd(gLastOp))
          => gErr.message # "multi-member add not allowed"

\* Witness of C5: a multi-member add was rejected after an earlier operation
\* of the same call had changed the member list.
C5_Witness ==
    /\ gPhase = "thrown"
    /\ gN = 2
    /\ IsMultiMemberAdd(gLastOp)
    /\ ~gCfg.allowMultiMemberAdd
    /\ gPrev.members # gState.members

\* A remove with path members[value eq "X"] and no value.
IsFilterRemove(operation) ==
    /\ GroupOpKind(operation) = "remove"
    /\ MemberPathMatch(operation.path)
    /\ operation.value = Undefined

\* C6: a remove with path members[value eq "X"] and no value removes exactly
\* the member whose value equals X and keeps every other member in order, for
\* every member id X, ids with upper-case letters included.
C6_FilterRemoveExact ==
    (GroupHandled /\ IsFilterRemove(gLastOp))
       => /\ gPhase # "thrown"
          /\ gWork.members = FilterMembers(gPrev.members, {Str(gLastOp.path.fval)})

\* The path is present and addresses none of members, displayName, externalId.
IsForeignPath(operation) ==
    /\ ~PathFalsy(operation.path)
    /\ ToLowerCase(operation.path.attr) \notin {"members", "displayname", "externalid"}

\* C8: any add, replace or remove whose path is present and does not address
\* members, displayName or externalId fails with PatchError 400 invalidPath,
\* whatever value it carries, and changes no member; so do an add with a path
\* other than members and a remove with a path other than members or a
\* members[...] filter.
C8_ForeignPathRejected ==
    (/\ GroupHandled
     /\ GroupOpKind(gLastOp) \in {"add", "replace", "remove"}
     /\ \/ IsForeignPath(gLastOp)
        \/ /\ GroupOpKind(gLastOp) = "add"
           /\ ~PathFalsy(gLastOp.path)
           /\ ~PathIs(PathToLowerCase(gLastOp.path), "members")
        \/ /\ GroupOpKind(gLastOp) = "remove"
           /\ ~PathFalsy(gLastOp.path)
           /\ ToLowerCase(gLastOp.path.attr) # "members")
       => /\ gPhase = "thrown"
          /\ gErr.status = 400
          /\ gErr.scimType = "invalidPath"
          /\ gWork.members = gPrev.members

-----------------------------------------------------------------------------
(* scim-patch-path utilities used by UserPatchEngine *)

\* The path as the string it is, for use as an object key.
PathString(p) == IF p.sub = "" THEN p.attr ELSE p.attr \o "." \o p.sub

\* {...obj, [key]: value}
ObjSet(o, key, value) == [k \in DOMAIN o \cup {key} |-> IF k = key THEN value ELSE o[k]]

\* obj without the keys in ks
ObjDel(o, ks) == [k \in DOMAIN o \ ks |-> o[k]]

\* {...a, ...b}
ObjMerge(a, b) == [k \in DOMAIN a \cup DOMAIN b |-> IF k \in DOMAIN b THEN b[k] ELSE a[k]]

IsExtensionPath(p) == p.present /\ p.urn # ""

IsValuePath(p) == p.present /\ p.urn = "" /\ p.hasFilter

\* An element of a multi-valued attribute satisfies attr[fattr eq "fval"].
ElementMatches(el, p) ==
    /\ el.t = "object"
    /\ \E k \in DOMAIN el.o :
          /\ ToLowerCase(k) = ToLowerCase(p.fattr)
          /\ el.o[k].t = "string"
          /\ ToLowerCase(el.o[k].s) = ToLowerCase(p.fval)

\* Key of the payload that holds the attribute, matched case-insensitively.
FindKey(payload, attr) ==
    IF \E k \in DOMAIN payload : ToLowerCase(k) = ToLowerCase(attr)
    THEN CHOOSE k \in DOMAIN payload : ToLowerCase(k) = ToLowerCase(attr)
    ELSE attr

ElementsOf(payload, key) ==
    IF key \in DOMAIN payload /\ payload[key].t = "array" THEN payload[key].items ELSE <<>>

\* applyExtensionUpdate: locate or create the extension object, then assign.
ApplyExtensionUpdate(payload, p, value) ==
    LET ext == IF p.urn \in DOMAIN payload /\ payload[p.urn].t = "object"
               THEN payload[p.urn].o ELSE EmptyObj
    IN  ObjSet(payload, p.urn, Obj(ObjSet(ext, p.attr, value)))

\* removeExtensionAttribute: delete the attribute from the extension object.
RemoveExtensionAttribute(payload, p) ==
    IF p.urn \in DOMAIN payload /\ payload[p.urn].t = "object"
    THEN ObjSet(payload, p.urn, Obj(ObjDel(payload[p.urn].o, {p.attr})))
    ELSE payload

\* applyValuePathUpdate: assign to the matching elements of the array.
ApplyValuePathUpdate(payload, p, value) ==
    LET key == FindKey(payload, p.attr)
        els == ElementsOf(payload, key)
        upd(el) == IF ~ElementMatches(el, p) THEN el
                   ELSE IF p.sub # "" THEN Obj(ObjSet(el.o, p.sub, value))
                   ELSE IF value.t = "object" THEN Obj(ObjMerge(el.o, value.o))
                   ELSE el
    IN  IF els = <<>> THEN payload
        ELSE ObjSet(payload, key, Arr([i \in 1..Len(els) |-> upd(els[i])]))

\* addValuePathEntry: update the matching element, or append a new element
\* built from the filter when none matches.
AddValuePathEntry(payload, p, value) ==
    LET key == FindKey(payload, p.attr)
        els == ElementsOf(payload, key)
        fresh == IF p.sub # "" THEN Obj((p.fattr :> Str(p.fval)) @@ (p.sub :> value))
                 ELSE IF value.t = "object" THEN Obj(ObjMerge(p.fattr :> Str(p.fval), value.o))
                 ELSE Obj(p.fattr :> Str(p.fval))
    IN  IF \E i \in 1..Len(els) : ElementMatches(els[i], p)
        THEN ApplyValuePathUpdate(payload, p, value)
        ELSE ObjSet(payload, key, Arr(Append(els, fresh)))

RECURSIVE DropMatching(_, _)
DropMatching(els, p) ==
    IF els = <<>> THEN <<>>
    ELSE IF ElementMatches(Head(els), p) THEN DropMatching(Tail(els), p)
    ELSE <<Head(els)>> \o DropMatching(Tail(els), p)

\* removeValuePathEntry: drop the matching elements, or their sub-attribute.
RemoveValuePathEntry(payload, p) ==
    LET key == FindKey(payload, p.attr)
        els == ElementsOf(payload, key)
        strip(el) == IF ElementMatches(el, p) THEN Obj(ObjDel(el.o, {p.sub})) ELSE el
    IN  IF els = <<>> THEN payload
        ELSE IF p.sub = "" THEN ObjSet(payload, key, Arr(DropMatching(els, p)))
        ELSE ObjSet(payload, key, Arr([i \in 1..Len(els) |-> strip(els[i])]))

\* resolveNoPathValue: the keys of the update object are merged verbatim.
ResolveNoPathValue(payload, updateObj) == ObjMerge(payload, updateObj)

-----------------------------------------------------------------------------
(* UserPatchEngine *)

\* CANONICAL_KEY_MAP
CANONICAL_KEY_MAP ==
    [username |-> "userName", externalid |-> "externalId", active |-> "active",
     displayname |-> "displayName", name |-> "name", nickname |-> "nickName",
     profileurl |-> "profileUrl", title |-> "title", usertype |-> "userType",
     preferredlanguage |-> "preferredLanguage", locale |-> "locale",
     timezone |-> "timezone", emails |-> "emails", phonenumbers |-> "phoneNumbers",
     addresses |-> "addresses", photos |-> "photos", ims |-> "ims", roles |-> "roles",
     entitlements |-> "entitlements", x509certificates |-> "x509Certificates"]

RESERVED_ATTRIBUTES ==
    {"id", "username", "userid", "userName", "externalid", "externalId", "active"}

\* The locals of apply.  shared holds the top-level keys whose value is still
\* the very object that the caller's state.rawPayload refers to under that
\* key (apply copies rawPayload one level deep); callerPayload is the caller's
\* state.rawPayload as the caller sees it.
UserLocals(userName, displayName, externalId, active, rawPayload, shared, callerPayload) ==
    [userName |-> userName, displayName |-> displayName, externalId |-> externalId,
     active |-> active, rawPayload |-> rawPayload, shared |-> shared,
     callerPayload |-> callerPayload]

\* rawPayload = payload, where the keys in written now hold fresh values.
SetPayload(w, payload, written) ==
    [w EXCEPT !.rawPayload = payload, !.shared = (@ \ written) \cap DOMAIN payload]

\* Mutant of CanonicalKey: the table is looked up with the key as spelled.
CanonicalKey_ExactCase(key) ==
    IF key \in DOMAIN CANONICAL_KEY_MAP THEN CANONICAL_KEY_MAP[key] ELSE key

\* normalizeObjectKeys, for one key
CanonicalKey(key) ==
    IF ToLowerCase(key) \in DOMAIN CANONICAL_KEY_MAP
    THEN CANONICAL_KEY_MAP[ToLowerCase(key)] ELSE key

\* normalizeObjectKeys; the inputs hold no two keys with one canonical name.
NormalizeObjectKeys(obj) ==
    [c \in {CanonicalKey(k) : k \in DOMAIN obj} |->
        obj[CHOOSE k \in DOMAIN obj : CanonicalKey(k) = c]]

IsBooleanWord(v) == v.t = "string" /\ ToLowerCase(v.s) \in {"true", "false"}

\* extractBooleanValue accepts the value.
IsBooleanLike(value) ==
    \/ value.t = "boolean"
    \/ IsBooleanWord(value)
    \/ /\ HasKey(value, "active")
       /\ (Get(value, "active").t = "boolean" \/ IsBooleanWord(Get(value, "active")))

\* Mutant of ExtractBooleanValue: the word is compared as it is spelled.
ExtractBooleanValue_CaseSensitive(value) ==
    IF value.t = "boolean" THEN value.b
    ELSE IF IsBooleanWord(value) THEN value.s = "true"
    ELSE IF Get(value, "active").t = "boolean" THEN Get(value, "active").b
    ELSE Get(value, "active").s = "true"

\* extractBooleanValue, on a value it accepts.
ExtractBooleanValue(value) ==
    IF value.t = "boolean" THEN value.b
    ELSE IF IsBooleanWord(value) THEN ToLowerCase(value.s) = "true"
    ELSE IF Get(value, "active").t = "boolean" THEN Get(value, "active").b
    ELSE ToLowerCase(Get(value, "active").s) = "true"

\* extractNullableStringValue: undefined becomes null.
ExtractNullableStringValue(value) ==
    IF value.t \in {"null", "undefined"} THEN Null ELSE value

IsNullableString(value) == value.t \in {"null", "undefined", "string"}

\* Mutant of StripReservedAttributes: only the exact spelling of a key is
\* compared, not its lower-cased form.
StripReservedAttributes_ExactOnly(payload) ==
    [k \in {key \in DOMAIN payload : key \notin RESERVED_ATTRIBUTES} |-> payload[k]]

StripReservedAttributes(payload) ==
    [k \in {key \in DOMAIN payload :
              key \notin RESERVED_ATTRIBUTES /\ ToLowerCase(key) \notin RESERVED_ATTRIBUTES}
       |-> payload[k]]

RemoveAttribute(payload, attribute) ==
    [k \in {key \in DOMAIN payload : ToLowerCase(key) # ToLowerCase(attribute)}
       |-> payload[k]]

\* The key applyDotNotation / removeDotNotation work on.
DotParentKey(payload, p) == FindKey(payload, p.attr)

\* The parent exists and is a plain object: it is updated in place.
DotInPlace(payload, p) ==
    /\ DotParentKey(payload, p) \in DOMAIN payload
    /\ payload[DotParentKey(payload, p)].t = "object"

\* Mutant of ApplyDotNotation: the parent is always assigned a fresh object
\* that holds the child alone.
ApplyDotNotation_DroppingSiblings(w, p, value) ==
    LET key == DotParentKey(w.rawPayload, p)
    IN  SetPayload(w, ObjSet(w.rawPayload, key, Obj(p.sub :> value)), {key})

\* applyDotNotation: existing[childAttr] = value writes into the object the
\* caller's state may share; otherwise a fresh parent object is assigned.
ApplyDotNotation(w, p, value) ==
    LET key == DotParentKey(w.rawPayload, p)
        updated == Obj(ObjSet(w.rawPayload[key].o, p.sub, value))
    IN  IF DotInPlace(w.rawPayload, p)
        THEN [w EXCEPT !.rawPayload = ObjSet(@, key, updated),
                       !.callerPayload = IF key \in w.shared
                                         THEN ObjSet(@, key, updated) ELSE @]
        ELSE SetPayload(w, ObjSet(w.rawPayload, key, Obj(p.sub :> value)), {key})

\* removeDotNotation: delete existing[childAttr], in place.
RemoveDotNotation(w, p) ==
    LET key == DotParentKey(w.rawPayload, p)
        updated == Obj(ObjDel(w.rawPayload[key].o, {p.sub}))
    IN  IF DotInPlace(w.rawPayload, p)
        THEN [w EXCEPT !.rawPayload = ObjSet(@, key, updated),
                       !.callerPayload = IF key \in w.shared
                                         THEN ObjSet(@, key, updated) ELSE @]
        ELSE w

\* originalPath.includes('.') for a path that is neither an extension path
\* nor a value path.
HasDot(p) == p.present /\ p.sub # ""

\* The no-path branch of applyAddOrReplace, for an object value.
MergeNoPath(value, w) ==
    LET updateObj == NormalizeObjectKeys(Entries(value))
        has(k) == k \in DOMAIN updateObj
        rest == ObjDel(updateObj, {"userName", "externalId", "active"})
    IN  IF has("userName") /\ ~IsString(updateObj["userName"])
        THEN Throw(w, PatchError(400, "invalidValue", "userName must be a string"))
        ELSE IF has("displayName") /\ ~IsNullableString(updateObj["displayName"])
        THEN Throw(w, PatchError(400, "invalidValue", "displayName must be a string or null"))
        ELSE IF has("externalId") /\ ~IsNullableString(updateObj["externalId"])
        THEN Throw(w, PatchError(400, "invalidValue", "externalId must be a string or null"))
        ELSE IF has("active") /\ ~IsBooleanLike(updateObj["active"])
        THEN Throw(w, PatchError(400, "invalidValue", "active needs boolean"))
        ELSE Ok(SetPayload(
                 [w EXCEPT
                    !.userName = IF has("userName") THEN updateObj["userName"] ELSE @,
                    !.displayName = IF has("displayName")
                                    THEN ExtractNullableStringValue(updateObj["displayName"])
                                    ELSE @,
                    !.externalId = IF has("externalId")
                                   THEN ExtractNullableStringValue(updateObj["externalId"])
                                   ELSE @,
                    !.active = IF has("active")
                               THEN Bool(ExtractBooleanValue(updateObj["active"])) ELSE @],
                 ResolveNoPathValue(w.rawPayload, rest), DOMAIN rest))

ApplyAddOrReplace(op, operation, w, config) ==
    LET originalPath == operation.path
        path == PathToLowerCase(operation.path)
        value == operation.value
    IN  IF PathIs(path, "active")
        THEN IF ~IsBooleanLike(value)
             THEN Throw(w, PatchError(400, "invalidValue", "active needs boolean"))
             ELSE Ok(SetPayload([w EXCEPT !.active = Bool(ExtractBooleanValue(value))],
                                ObjSet(w.rawPayload, "active", Bool(ExtractBooleanValue(value))),
                                {"active"}))
        ELSE IF PathIs(path, "username")
        THEN IF ~IsString(value)
             THEN Throw(w, PatchError(400, "invalidValue", "userName must be a string"))
             ELSE Ok([w EXCEPT !.userName = value])
        ELSE IF PathIs(path, "displayname")
        THEN IF ~IsNullableString(value)
             THEN Throw(w, PatchError(400, "invalidValue", "displayName must be a string or null"))
             ELSE Ok(SetPayload([w EXCEPT !.displayName = ExtractNullableStringValue(value)],
                                ObjSet(w.rawPayload, "displayName",
                                       ExtractNullableStringValue(value)),
                                {"displayName"}))
        ELSE IF PathIs(path, "externalid")
        THEN IF ~IsNullableString(value)
             THEN Throw(w, PatchError(400, "invalidValue", "externalId must be a string or null"))
             ELSE Ok([w EXCEPT !.externalId = ExtractNullableStringValue(value)])
        ELSE IF ~PathFalsy(originalPath) /\ IsExtensionPath(originalPath)
        THEN Ok(SetPayload(w, ApplyExtensionUpdate(w.rawPayload, originalPath, value),
                           {originalPath.urn}))
        ELSE IF ~PathFalsy(originalPath) /\ IsValuePath(originalPath)
        THEN Ok(SetPayload(w, IF op = "add"
                              THEN AddValuePathEntry(w.rawPayload, originalPath, value)
                              ELSE ApplyValuePathUpdate(w.rawPayload, originalPath, value),
                           {FindKey(w.rawPayload, originalPath.attr)}))
        ELSE IF config.verbosePatch /\ ~PathFalsy(originalPath) /\ HasDot(originalPath)
        THEN Ok(ApplyDotNotation(w, originalPath, value))
        ELSE IF ~PathFalsy(originalPath)
        THEN Ok(SetPayload(w, ObjSet(w.rawPayload, PathString(originalPath), value),
                           {PathString(originalPath)}))
        ELSE IF PathFalsy(path) /\ IsObjectLike(value)
        THEN MergeNoPath(value, w)
        ELSE Ok(w)

\* Mutant of ApplyRemove: a remove without a path changes nothing.
ApplyRemove_PathlessNoOp(operation, w, config) ==
    LET originalPath == operation.path
        path == PathToLowerCase(operation.path)
    IN  IF PathIs(path, "active")
        THEN Ok(SetPayload([w EXCEPT !.active = Bool(FALSE)],
                           ObjSet(w.rawPayload, "active", Bool(FALSE)), {"active"}))
        ELSE IF ~PathFalsy(originalPath) /\ IsExtensionPath(originalPath)
        THEN Ok(SetPayload(w, RemoveExtensionAttribute(w.rawPayload, originalPath),
                           {originalPath.urn}))
        ELSE IF ~PathFalsy(originalPath) /\ IsValuePath(originalPath)
        THEN Ok(SetPayload(w, RemoveValuePathEntry(w.rawPayload, originalPath),
                           {FindKey(w.rawPayload, originalPath.attr)}))
        ELSE IF config.verbosePatch /\ ~PathFalsy(originalPath) /\ HasDot(originalPath)
        THEN Ok(RemoveDotNotation(w, originalPath))
        ELSE IF ~PathFalsy(originalPath)
        THEN Ok(SetPayload(w, RemoveAttribute(w.rawPayload, PathString(originalPath)), {}))
        ELSE Ok(w)

\* applyRemove
ApplyRemove(operation, w, config) ==
    LET originalPath == operation.path
        path == PathToLowerCase(operation.path)
    IN  IF PathIs(path, "active")
        THEN Ok(SetPayload([w EXCEPT !.active = Bool(FALSE)],
                           ObjSet(w.rawPayload, "active", Bool(FALSE)), {"active"}))
        ELSE IF ~PathFalsy(originalPath) /\ IsExtensionPath(originalPath)
        THEN Ok(SetPayload(w, RemoveExtensionAttribute(w.rawPayload, originalPath),
                           {originalPath.urn}))
        ELSE IF ~PathFalsy(originalPath) /\ IsValuePath(originalPath)
        THEN Ok(SetPayload(w, RemoveValuePathEntry(w.rawPayload, originalPath),
                           {FindKey(w.rawPayload, originalPath.attr)}))
        ELSE IF config.verbosePatch /\ ~PathFalsy(originalPath) /\ HasDot(originalPath)
        THEN Ok(RemoveDotNotation(w, originalPath))
        ELSE IF ~PathFalsy(originalPath)
        THEN Ok(SetPayload(w, RemoveAttribute(w.rawPayload, PathString(originalPath)), {}))
        ELSE Throw(w, PatchError(400, "noTarget", "remove requires a path"))

\* One iteration of the loop of UserPatchEngine.apply.
UserHandle(operation, w, config) ==
    LET op == ToLowerCase(operation.op)
    IN  IF op \notin {"add", "replace", "remove"}
        THEN Throw(w, PatchError(400, "invalidValue", "op not supported"))
        ELSE IF op \in {"add", "replace"} THEN ApplyAddOrReplace(op, operation, w, config)
        ELSE ApplyRemove(operation, w, config)

\* What apply returns after the loop.
UserResult(w) ==
    [payload |-> StripReservedAttributes(w.rawPayload),
     extractedFields |-> [userName |-> w.userName, displayName |-> w.displayName,
                          externalId |-> w.externalId, active |-> w.active]]

-----------------------------------------------------------------------------
(* UserPatchEngine.apply as a state machine: one step per loop iteration *)

UserState(userName, displayName, externalId, active, rawPayload) ==
    [userName |-> userName, displayName |-> displayName, externalId |-> externalId,
     active |-> active, rawPayload |-> rawPayload]

NoUserResult ==
    [payload |-> EmptyObj,
     extractedFields |-> [userName |-> Undefined, displayName |-> Undefined,
                          externalId |-> Undefined, active |-> Undefined]]

Email(type, value) == Obj(("type" :> Str(type)) @@ ("value" :> Str(value)))

\* User states the service passes to apply.  rawPayload is what
\* extractAdditionalAttributes stored at creation: it deletes the keys
\* userName, externalId, active and id in that spelling only, so keys such as
\* ID or Active sent by a client stay in the stored payload.
UserStates ==
    { UserState(Str("jdoe@example.com"), Str("John"), Str("ext-1"), Bool(TRUE),
                ("displayName" :> Str("John"))
                @@ ("name" :> Obj(("givenName" :> Str("John")) @@ ("familyName" :> Str("Doe"))))
                @@ ("emails" :> Arr(<<Email("work", "jdoe@example.com"),
                                      Email("home", "john@home.example")>>))),
      UserState(Str("jdoe@example.com"), Null, Null, Bool(FALSE),
                ("ID" :> Str("client-id")) @@ ("Active" :> Bool(TRUE))
                @@ ("title" :> Str("Mr"))),
      UserState(Str("jdoe@example.com"), Null, Null, Bool(TRUE), EmptyObj) }

UserConfigs == {[verbosePatch |-> FALSE], [verbosePatch |-> TRUE]}

UserReplaceOps ==
    { Op("replace", Path("active"), Bool(FALSE)),
      Op("Replace", Path("Active"), Str("True")),
      Op("replace", Path("active"), Str("maybe")),
      Op("replace", Path("userName"), Str("new@example.com")),
      Op("replace", Path("UserName"), Num(1)),
      Op("replace", Path("displayName"), Str("Johnny")),
      Op("replace", Path("displayName"), Null),
      Op("replace", Path("externalId"), Str("ext-2")),
      Op("replace", Path("title"), Str("Dr")),
      Op("replace", Path("Title"), Str("Prof")),
      Op("replace", Path("id"), Str("forged")),
      Op("replace", Path("ID"), Str("forged")),
      Op("replace", DotPath("name", "givenName"), Str("Jane")),
      Op("replace", DotPath("Name", "middleName"), Str("Q")),
      Op("replace", DotPath("title", "name"), Str("x")),
      Op("replace", ExtensionPath(EnterpriseUrn, "manager"), Str("m1")),
      Op("replace", ValuePath("emails", "type", "work", "value"), Str("new@example.com")),
      Op("replace", NoPath,
         Obj(("displayName" :> Str("Merged")) @@ ("Active" :> Str("False"))
             @@ ("title" :> Str("Dr")))),
      Op("replace", NoPath, Obj(("UserName" :> Num(1)))),
      Op("replace", NoPath, Obj(("userName" :> Str("new@example.com")) @@ ("ID" :> Str("forged")))),
      Op("replace", NoPath, Str("Dr")),
      Op("replace", Path("active"), Str("False")),
      Op("replace", Path("active"), Num(1)),
      Op("replace", Path("active"), Null),
      Op("replace", Path("active"), Obj("active" :> Str("maybe"))),
      Op("replace", Path("active"), Obj("Active" :> Bool(TRUE))),
      Op("replace", NoPath, Num(1)),
      Op("replace", NoPath, Null) }

UserAddOps ==
    { Op("add", Path("nickName"), Str("JD")),
      Op("ADD", Path("active"), Obj("active" :> Bool(FALSE))),
      Op("add", ValuePath("emails", "type", "home", "value"), Str("new@home.example")),
      Op("add", FilterPath("emails", "type", "other"), Obj("value" :> Str("o@example.com"))),
      Op("add", DotPath("name", "givenName"), Str("Jane")),
      Op("add", NoPath, Obj("externalId" :> Null)),
      Op("add", Path("active"), Undefined),
      Op("add", Path("active"), Obj("active" :> Str("TRUE"))),
      Op("add", NoPath, Undefined),
      Op("add", Path(""), Bool(TRUE)),
      Op("add", NoPath,
         Obj(("DisplayName" :> Str("Merged")) @@ ("unknownField" :> Str("x")))),
      Op("add", NoPath, Obj(("active" :> Str("maybe")) @@ ("unknownField" :> Str("x")))),
      Op("add", NoPath, Obj("displayName" :> Num(1))) }

UserRemoveOps ==
    { Op("remove", Path("active"), Undefined),
      Op("Remove", Path("Title"), Undefined),
      Op("remove", Path("ID"), Undefined),
      Op("remove", Path("displayName"), Undefined),
      Op("remove", DotPath("name", "givenName"), Undefined),
      Op("remove", ExtensionPath(EnterpriseUrn, "manager"), Undefined),
      Op("remove", FilterPath("emails", "type", "work"), Undefined),
      Op("remove", NoPath, Undefined),
      Op("remove", Path(""), Undefined) }

UserBadOps == { Op("bogus", Path("title"), Str("x")), Op("", Path("title"), Str("x")) }

UserOps == UserReplaceOps \cup UserAddOps \cup UserRemoveOps \cup UserBadOps

\* Mutant of EnterLocals: active starts at true, not at the state's value.
EnterLocals_DefaultActive(state) ==
    UserLocals(state.userName, state.displayName, state.externalId, Bool(TRUE),
               state.rawPayload,
               {k \in DOMAIN state.rawPayload : IsObjectLike(state.rawPayload[k])},
               state.rawPayload)

\* let rawPayload = { ...state.rawPayload }: a copy one level deep, whose
\* objects and arrays are the ones of the caller's state.
EnterLocals(state) ==
    UserLocals(state.userName, state.displayName, state.externalId, state.active,
               state.rawPayload,
               {k \in DOMAIN state.rawPayload : IsObjectLike(state.rawPayload[k])},
               state.rawPayload)

UserOff ==
    /\ uState = UserState(Str(""), Null, Null, Bool(FALSE), EmptyObj)
    /\ uState0 = uState
    /\ uCfg = [verbosePatch |-> FALSE]
    /\ uPhase = "off"
    /\ uWork = EnterLocals(uState)
    /\ uPrev = uWork
    /\ uLastOp = NoOp
    /\ uN = 0
    /\ uErr = NoError
    /\ uResult = NoUserResult

UserStart ==
    /\ uState \in UserStates
    /\ uState0 = uState
    /\ uCfg \in UserConfigs
    /\ uPhase = "idle"
    /\ uWork = EnterLocals(uState)
    /\ uPrev = uWork
    /\ uLastOp = NoOp
    /\ uN = 0
    /\ uErr = NoError
    /\ uResult = NoUserResult

\* Entry of apply.
UserApplyBegin ==
    /\ uPhase = "idle"
    /\ uPhase' = "running"
    /\ uWork' = EnterLocals(uState)
    /\ uPrev' = uWork'
    /\ UNCHANGED <<uState, uState0, uCfg, uLastOp, uN, uErr, uResult>>
    /\ UNCHANGED <<gvars, fvars, svars>>

\* One iteration of the for loop; a throw ends the call.  A write through an
\* object shared with the caller shows in the caller's state.
UserApplyOp(operation) ==
    /\ uPhase = "running"
    /\ uN < MaxOps
    /\ LET r == UserHandle(operation, uWork, uCfg)
       IN  /\ uPhase' = IF r.ok THEN "running" ELSE "thrown"
           /\ uWork' = r.st
           /\ uErr' = r.err
           /\ uState' = [uState EXCEPT !.rawPayload = r.st.callerPayload]
    /\ uPrev' = uWork
    /\ uLastOp' = operation
    /\ uN' = uN + 1
    /\ UNCHANGED <<uState0, uCfg, uResult>>
    /\ UNCHANGED <<gvars, fvars, svars>>

\* End of the loop: strip the reserved keys and return.
UserApplyReturn ==
    /\ uPhase = "running"
    /\ uPhase' = "returned"
    /\ uResult' = UserResult(uWork)
    /\ UNCHANGED <<uState, uState0, uCfg, uWork, uPrev, uLastOp, uN, uErr>>
    /\ UNCHANGED <<gvars, fvars, svars>>

NextUser ==
    \/ UserApplyBegin
    \/ \E operation \in UserOps : UserApplyOp(operation)
    \/ UserApplyReturn


-----------------------------------------------------------------------------
(* User engine: properties *)

UserCalled == uPhase \in {"running", "returned", "thrown"}

\* C3: UserPatchEngine.apply never modifies the state it is given: during and
\* after the call, whether it returned or threw, the caller's state object
\* (the nested objects of rawPayload included) equals what it was at entry.
C3_CallerStateUntouched == UserCalled => uState = uState0

ServerManagedKeys == {"id", "username", "externalid", "active"}

HasServerManagedKey(payload) ==
    \E k \in DOMAIN payload : ToLowerCase(k) \in ServerManagedKeys

\* C7: whenever apply returns, the returned payload has no top-level key
\* whose lower-cased name is id, username, externalid or active, whatever
\* the input payload held and whatever the operations wrote.
C7_ReservedKeysStripped == uPhase = "returned" => ~HasServerManagedKey(uResult.payload)

\* apply returned after the operations left a reserved key, in a spelling
\* other than the canonical one, in the payload it was folding.
C7_Witness ==
    /\ uPhase = "returned"
    /\ uN > 0
    /\ \E k \in DOMAIN uWork.rawPayload :
          ToLowerCase(k) \in ServerManagedKeys /\ k \notin ServerManagedKeys
    /\ "active" \in DOMAIN uWork.rawPayload
    /\ ~HasServerManagedKey(uResult.payload)

-----------------------------------------------------------------------------
(* Both engines: replace applied twice *)


\* The fields of the locals that make up the engine's result.
UserFields(w) == UserState(w.userName, w.displayName, w.externalId, w.active, w.rawPayload)

\* The state a caller builds from a UserPatchResult to call apply again.
StateOfResult(res) ==
    UserState(res.extractedFields.userName, res.extractedFields.displayName,
              res.extractedFields.externalId, res.extractedFields.active, res.payload)

GroupReplaceDone ==
    gPhase \in {"running", "returned"} /\ GroupHandled /\ GroupOpKind(gLastOp) = "replace"

UserReplaceDone ==
    uPhase \in {"running", "returned"} /\ uN > 0 /\ ToLowerCase(uLastOp.op) = "replace"

\* C9: replace is idempotent in both engines.  After a replace r has been
\* handled successfully, handling r once more succeeds and leaves the locals
\* as they are (apply([.., r, r]) = apply([.., r])), and applying [r] to the
\* state built from what apply returned gives that same result again.
C9_ReplaceIdempotent ==
    /\ GroupReplaceDone =>
          LET again == GroupHandle(gLastOp, gWork, gCfg)
          IN  again.ok /\ again.st = gWork
    /\ UserReplaceDone =>
          LET again == UserHandle(uLastOp, uWork, uCfg)
          IN  again.ok /\ UserFields(again.st) = UserFields(uWork)
    /\ (UserReplaceDone /\ uPhase = "returned") =>
          LET again == UserHandle(uLastOp, EnterLocals(StateOfResult(uResult)), uCfg)
          IN  again.ok /\ UserResult(again.st) = uResult

\* A replace of the member list changed a non-empty list.
C9_Witness ==
    /\ GroupReplaceDone
    /\ gN = 1
    /\ PathIs(PathToLowerCase(gLastOp.path), "members")
    /\ gPrev.members # <<>>
    /\ gWork.members # <<>>
    /\ gWork.members # gPrev.members

-----------------------------------------------------------------------------
(* Filters: string values as character sequences *)

\* String values of filters and of stored records are sequences of
\* characters, so that toLowerCase, includes, startsWith, endsWith and the
\* ordering of strings are computed.
LowerChar(c) ==
    CASE c = "A" -> "a" [] c = "B" -> "b" [] c = "T" -> "t" [] OTHER -> c

\* UTF-16 code units of the characters of the model.
CharCode(c) ==
    CASE c = "5" -> 53 [] c = "A" -> 65 [] c = "B" -> 66 [] c = "T" -> 84
      [] c = "a" -> 97 [] c = "b" -> 98 [] c = "e" -> 101 [] c = "f" -> 102
      [] c = "l" -> 108 [] c = "r" -> 114 [] c = "s" -> 115 [] c = "t" -> 116
      [] c = "u" -> 117

\* String.prototype.toLowerCase on a character sequence.
StrLower(s) == [i \in 1..Len(s) |-> LowerChar(s[i])]

Includes(s, t) == \E i \in 0..(Len(s) - Len(t)) : SubSeq(s, i + 1, i + Len(t)) = t

StartsWith(s, t) == Len(t) <= Len(s) /\ SubSeq(s, 1, Len(t)) = t

EndsWith(s, t) == Len(t) <= Len(s) /\ SubSeq(s, Len(s) - Len(t) + 1, Len(s)) = t

\* s < t for JavaScript strings: by code unit, a proper prefix is smaller.
RECURSIVE StrLess(_, _)
StrLess(s, t) ==
    IF t = <<>> THEN FALSE
    ELSE IF s = <<>> THEN TRUE
    ELSE IF CharCode(Head(s)) # CharCode(Head(t)) THEN CharCode(Head(s)) < CharCode(Head(t))
    ELSE StrLess(Tail(s), Tail(t))

TrueWord == <<"t", "r", "u", "e">>
FalseWord == <<"f", "a", "l", "s", "e">>

\* String(value) for the values a filter can carry.
ToStringJS(v) ==
    CASE v.t = "string" -> v.s
      [] v.t = "boolean" -> IF v.b THEN TrueWord ELSE FalseWord
      [] v.t = "number" /\ v.n = 5 -> <<"5">>

-----------------------------------------------------------------------------
(* scim-filter-parser.ts: AST and parser *)

Compare(attrPath, op, value) ==
    [type |-> "compare", attrPath |-> attrPath, op |-> op, value |-> value]

Logical(op, left, right) == [type |-> "logical", op |-> op, left |-> left, right |-> right]

Not(filter) == [type |-> "not", filter |-> filter]

ValuePathNode(attrPath, filter) == [type |-> "valuePath", attrPath |-> attrPath, filter |-> filter]

\* A literal as written in the filter string.
Quoted(text) == [quoted |-> TRUE, text |-> text]
Bare(text) == [quoted |-> FALSE, text |-> text]
NoLiteral == [quoted |-> FALSE, text |-> <<>>]

\* Value of a literal: a quoted literal is a string, the unquoted literals
\* true and false are booleans, an unquoted digit is a number; pr has none.
ParseLiteral(lit) ==
    IF lit.quoted THEN Str(lit.text)
    ELSE IF lit.text = TrueWord THEN Bool(TRUE)
    ELSE IF lit.text = FalseWord THEN Bool(FALSE)
    ELSE IF lit.text = <<"5">> THEN Num(5)
    ELSE Undefined

\* parseScimFilter, on the syntax tree of a well-formed filter string whose
\* comparison values are still literals.
RECURSIVE ParseScimFilter(_)
ParseScimFilter(src) ==
    CASE src.type = "compare" -> Compare(src.attrPath, src.op, ParseLiteral(src.value))
      [] src.type = "logical" ->
            Logical(src.op, ParseScimFilter(src.left), ParseScimFilter(src.right))
      [] src.type = "not" -> Not(ParseScimFilter(src.filter))
      [] src.type = "valuePath" -> ValuePathNode(src.attrPath, ParseScimFilter(src.filter))

-----------------------------------------------------------------------------
(* apply-scim-filter.ts: the push-down planner *)

ColumnMapping(column, type) == [column |-> column, type |-> type]

USER_DB_COLUMNS ==
    [username |-> ColumnMapping("userName", "citext"),
     displayname |-> ColumnMapping("displayName", "citext"),
     externalid |-> ColumnMapping("externalId", "varchar"),
     id |-> ColumnMapping("scimId", "uuid"),
     active |-> ColumnMapping("active", "boolean")]

GROUP_DB_COLUMNS ==
    [displayname |-> ColumnMapping("displayName", "citext"),
     externalid |-> ColumnMapping("externalId", "varchar"),
     id |-> ColumnMapping("scimId", "uuid"),
     active |-> ColumnMapping("active", "boolean")]

Insensitive == <<"i", "n", "s", "e", "n", "s", "i", "t", "i", "v", "e">>

\* { [column]: condition }
Where(column, condition) == Obj(column :> condition)

StringFilter(key, value) == Obj((key :> Str(ToStringJS(value))) @@ ("mode" :> Str(Insensitive)))

\* buildColumnFilter: a Prisma where object, or null.
BuildColumnFilter(column, type, op, value) ==
    CASE op = "eq" -> Where(column, value)
      [] op = "ne" -> Where(column, Obj("not" :> value))
      [] op = "co" -> IF type \notin {"citext", "varchar"} THEN Null
                      ELSE Where(column, StringFilter("contains", value))
      [] op = "sw" -> IF type \notin {"citext", "varchar"} THEN Null
                      ELSE Where(column, StringFilter("startsWith", value))
      [] op = "ew" -> IF type \notin {"citext", "varchar"} THEN Null
                      ELSE Where(column, StringFilter("endsWith", value))
      [] op = "gt" -> Where(column, Obj("gt" :> value))
      [] op = "ge" -> Where(column, Obj("gte" :> value))
      [] op = "lt" -> Where(column, Obj("lt" :> value))
      [] op = "le" -> Where(column, Obj("lte" :> value))
      [] op = "pr" -> Where(column, Obj("not" :> Null))
      [] OTHER -> Null

\* Mutant of PushCompareToDb: the attribute path is looked up as written.
PushCompareToDb_CaseSensitive(node, columnMap) ==
    IF node.attrPath \notin DOMAIN columnMap THEN Null
    ELSE BuildColumnFilter(columnMap[node.attrPath].column, columnMap[node.attrPath].type,
                           node.op, node.value)

\* pushCompareToDb
PushCompareToDb(node, columnMap) ==
    LET attrLower == ToLowerCase(node.attrPath)
    IN  IF attrLower \notin DOMAIN columnMap THEN Null
        ELSE BuildColumnFilter(columnMap[attrLower].column, columnMap[attrLower].type,
                               node.op, node.value)

\* Mutant of LogicalClause: when one side cannot be pushed, the clause of
\* the other side is returned alone.
LogicalClause_Partial(op, left, right) ==
    IF op \notin {"and", "or"} THEN Null
    ELSE IF Truthy(left) /\ Truthy(right)
    THEN Obj((IF op = "and" THEN "AND" ELSE "OR") :> Arr(<<left, right>>))
    ELSE IF Truthy(left) THEN left
    ELSE right

\* The combination step of pushLogicalToDb, given the clauses of both sides.
LogicalClause(op, left, right) ==
    IF op = "and"
    THEN IF Truthy(left) /\ Truthy(right) THEN Obj("AND" :> Arr(<<left, right>>)) ELSE Null
    ELSE IF op = "or"
    THEN IF Truthy(left) /\ Truthy(right) THEN Obj("OR" :> Arr(<<left, right>>)) ELSE Null
    ELSE Null

RECURSIVE TryPushToDb(_, _)
PushLogicalToDb(node, columnMap) ==
    LogicalClause(node.op, TryPushToDb(node.left, columnMap), TryPushToDb(node.right, columnMap))

\* Mutant of TryPushToDb: a not node is planned as the filter it negates.
TryPushToDb_ThroughNot(ast, columnMap) ==
    CASE ast.type = "compare" -> PushCompareToDb(ast, columnMap)
      [] ast.type = "logical" -> PushLogicalToDb(ast, columnMap)
      [] ast.type = "not" -> TryPushToDb(ast.filter, columnMap)
      [] OTHER -> Null

\* tryPushToDb
TryPushToDb(ast, columnMap) ==
    CASE ast.type = "compare" -> PushCompareToDb(ast, columnMap)
      [] ast.type = "logical" -> PushLogicalToDb(ast, columnMap)
      [] OTHER -> Null

FilterResult(dbWhere, fetchAll, inMemoryFilter) ==
    [dbWhere |-> dbWhere, fetchAll |-> fetchAll, inMemoryFilter |-> inMemoryFilter]

\* Mutant of BuildFilterResult: the fallback result does not ask for all rows.
BuildFilterResult_NoFetchAll(ast, columnMap) ==
    LET dbClause == TryPushToDb(ast, columnMap)
    IN  IF Truthy(dbClause) THEN FilterResult(dbClause.o, FALSE, FALSE)
        ELSE FilterResult(EmptyObj, FALSE, TRUE)

\* buildFilterResult; inMemoryFilter tells whether the result carries the
\* closure resource => evaluateFilter(ast, resource).
BuildFilterResult(ast, columnMap) ==
    LET dbClause == TryPushToDb(ast, columnMap)
    IN  IF Truthy(dbClause) THEN FilterResult(dbClause.o, FALSE, FALSE)
        ELSE FilterResult(EmptyObj, TRUE, TRUE)

-----------------------------------------------------------------------------
(* prisma-filter-evaluator.ts *)

\* record[key]
Field(record, key) == IF key \in DOMAIN record THEN record[key] ELSE Undefined

\* a === b for primitives, null and undefined
StrictEquals(a, b) ==
    /\ a.t = b.t
    /\ CASE a.t = "string" -> a.s = b.s
         [] a.t = "number" -> a.n = b.n
         [] a.t = "boolean" -> a.b = b.b
         [] a.t \in {"null", "undefined"} -> TRUE
         [] OTHER -> FALSE

MatchEquality(stored, expected) ==
    IF IsString(stored) /\ IsString(expected)
    THEN StrLower(stored.s) = StrLower(expected.s)
    ELSE StrictEquals(stored, expected)

CompareOrdered(stored, expected, op) ==
    IF stored.t = "number" /\ expected.t = "number"
    THEN CASE op = "gt" -> stored.n > expected.n
           [] op = "gte" -> stored.n >= expected.n
           [] op = "lt" -> stored.n < expected.n
           [] op = "lte" -> stored.n <= expected.n
    ELSE IF IsString(stored) /\ IsString(expected)
    THEN LET st == StrLower(stored.s)
             e == StrLower(expected.s)
         IN  CASE op = "gt" -> StrLess(e, st)
               [] op = "gte" -> ~StrLess(st, e)
               [] op = "lt" -> StrLess(st, e)
               [] op = "lte" -> ~StrLess(e, st)
    ELSE FALSE

\* A search string matched by contains / startsWith / endsWith.
MatchSubstring(stored, search, caseInsensitive, kind) ==
    LET hay == IF caseInsensitive THEN StrLower(stored.s) ELSE stored.s
        needle == IF caseInsensitive THEN StrLower(search) ELSE search
    IN  /\ IsString(stored)
        /\ CASE kind = "contains" -> Includes(hay, needle)
             [] kind = "startsWith" -> StartsWith(hay, needle)
             [] kind = "endsWith" -> EndsWith(hay, needle)

MatchOperator(stored, opObj) ==
    LET has(k) == k \in DOMAIN opObj
        caseInsensitive == has("mode") /\ StrictEquals(opObj["mode"], Str(Insensitive))
    IN  IF has("not") /\ ~(has("contains") \/ has("startsWith") \/ has("endsWith") \/ has("gt"))
        THEN IF opObj["not"].t = "null"
             THEN stored.t \notin {"null", "undefined"}
             ELSE ~MatchEquality(stored, opObj["not"])
        ELSE IF has("contains")
        THEN IsString(stored)
             /\ MatchSubstring(stored, ToStringJS(opObj["contains"]), caseInsensitive, "contains")
        ELSE IF has("startsWith")
        THEN IsString(stored)
             /\ MatchSubstring(stored, ToStringJS(opObj["startsWith"]), caseInsensitive, "startsWith")
        ELSE IF has("endsWith")
        THEN IsString(stored)
             /\ MatchSubstring(stored, ToStringJS(opObj["endsWith"]), caseInsensitive, "endsWith")
        ELSE IF has("gt") THEN CompareOrdered(stored, opObj["gt"], "gt")
        ELSE IF has("gte") THEN CompareOrdered(stored, opObj["gte"], "gte")
        ELSE IF has("lt") THEN CompareOrdered(stored, opObj["lt"], "lt")
        ELSE IF has("lte") THEN CompareOrdered(stored, opObj["lte"], "lte")
        ELSE FALSE

RECURSIVE MatchesPrismaFilter(_, _)
MatchesPrismaFilter(record, filter) ==
    \A key \in DOMAIN filter :
        LET condition == filter[key]
        IN  IF key = "AND"
            THEN \A i \in 1..Len(condition.items) :
                    MatchesPrismaFilter(record, condition.items[i].o)
            ELSE IF key = "OR"
            THEN \E i \in 1..Len(condition.items) :
                    MatchesPrismaFilter(record, condition.items[i].o)
            ELSE IF ~IsObjectLike(condition)
            THEN MatchEquality(Field(record, key), condition)
            ELSE MatchOperator(Field(record, key), condition.o)

-----------------------------------------------------------------------------
(* scim-filter-parser.ts: evaluateFilter *)

\* The attribute path split at its dot.
SplitAttrPath(attrPath) ==
    CASE attrPath = "emails.value" -> <<"emails", "value">>
      [] attrPath = "emails.type" -> <<"emails", "type">>
      [] OTHER -> <<attrPath>>

\* The values of an object's attribute, the name matched case-insensitively.
AttrValues(o, name) == {o[k] : k \in {key \in DOMAIN o : ToLowerCase(key) = ToLowerCase(name)}}

\* The values the path resolves to: the attribute itself, the sub-attribute
\* of a complex attribute, or the sub-attribute of each element of a
\* multi-valued attribute.
ResolveAttr(resource, attrPath) ==
    LET parts == SplitAttrPath(attrPath)
        tops == AttrValues(resource, parts[1])
        below(v) == IF v.t = "object" THEN AttrValues(v.o, parts[2])
                    ELSE IF v.t = "array"
                    THEN UNION {AttrValues(v.items[i].o, parts[2]) :
                                  i \in {j \in 1..Len(v.items) : v.items[j].t = "object"}}
                    ELSE {}
    IN  IF Len(parts) = 1 THEN tops ELSE UNION {below(v) : v \in tops}

IsBooleanWordText(v) == IsString(v) /\ StrLower(v.s) \in {TrueWord, FalseWord}

\* The comparison value in the value class of the stored value: a string for
\* a stored string, a boolean for a stored boolean (the words true and false
\* in any letter case included), a number for a stored number; a value of
\* another type matches nothing.
CoerceToStored(stored, value) ==
    CASE stored.t = "string" /\ value.t = "string" -> value
      [] stored.t = "boolean" /\ value.t = "boolean" -> value
      [] stored.t = "boolean" /\ IsBooleanWordText(value) -> Bool(StrLower(value.s) = TrueWord)
      [] stored.t = "number" /\ value.t = "number" -> value
      [] OTHER -> Undefined

\* One stored value against the comparison value.
CompareValue(stored, op, value) ==
    LET v == CoerceToStored(stored, value)
        lessThan(a, b) == IF a.t = "string" THEN StrLess(StrLower(a.s), StrLower(b.s))
                          ELSE a.t = "number" /\ a.n < b.n
        same(a, b) == IF a.t = "string" THEN StrLower(a.s) = StrLower(b.s)
                      ELSE StrictEquals(a, b)
        ordered == v.t \in {"string", "number"}
    IN  IF op = "pr" THEN stored.t \notin {"null", "undefined"}
        ELSE IF v.t = "undefined" THEN FALSE
        ELSE CASE op = "eq" -> same(stored, v)
               [] op = "co" -> IsString(stored) /\ Includes(StrLower(stored.s), StrLower(v.s))
               [] op = "sw" -> IsString(stored) /\ StartsWith(StrLower(stored.s), StrLower(v.s))
               [] op = "ew" -> IsString(stored) /\ EndsWith(StrLower(stored.s), StrLower(v.s))
               [] op = "gt" -> ordered /\ lessThan(v, stored)
               [] op = "ge" -> ordered /\ ~lessThan(stored, v)
               [] op = "lt" -> ordered /\ lessThan(stored, v)
               [] op = "le" -> ordered /\ ~lessThan(v, stored)
               [] OTHER -> FALSE

EvaluateCompare(node, resource) ==
    LET values == ResolveAttr(resource, node.attrPath)
    IN  IF node.op = "ne"
        THEN ~(\E stored \in values : CompareValue(stored, "eq", node.value))
        ELSE \E stored \in values : CompareValue(stored, node.op, node.value)

RECURSIVE EvaluateFilter(_, _)
EvaluateFilter(node, resource) ==
    CASE node.type = "compare" -> EvaluateCompare(node, resource)
      [] node.type = "logical" ->
            IF node.op = "and"
            THEN EvaluateFilter(node.left, resource) /\ EvaluateFilter(node.right, resource)
            ELSE EvaluateFilter(node.left, resource) \/ EvaluateFilter(node.right, resource)
      [] node.type = "not" -> ~EvaluateFilter(node.filter, resource)
      [] node.type = "valuePath" ->
            \E list \in AttrValues(resource, node.attrPath) :
               /\ list.t = "array"
               /\ \E i \in 1..Len(list.items) :
                     list.items[i].t = "object" /\ EvaluateFilter(node.filter, list.items[i].o)

-----------------------------------------------------------------------------
(* Filters: stored records, resources, and the list operations *)

MaxDepth == 3

ab == <<"a", "b">>
AB == <<"A", "B">>
Ab == <<"A", "b">>
TrueQuoted == <<"T", "r", "u", "e">>

UserRecord(scimId, userName, displayName, externalId, active, rawPayload) ==
    [scimId |-> scimId, userName |-> userName, displayName |-> displayName,
     externalId |-> externalId, active |-> active, rawPayload |-> rawPayload]

GroupRecord(scimId, displayName, externalId, rawPayload) ==
    [scimId |-> scimId, displayName |-> displayName, externalId |-> externalId,
     rawPayload |-> rawPayload]

\* The displayName of a user is stored in the column and in rawPayload.
UserRecords ==
    { UserRecord(Str(<<"a">>), Str(ab), Str(Ab), Str(<<"a">>), Bool(TRUE),
                 ("displayName" :> Str(Ab))
                 @@ ("emails" :> Arr(<<Obj(("value" :> Str(ab)) @@ ("type" :> Str(<<"b">>)))>>))),
      UserRecord(Str(<<"b">>), Str(AB), Null, Null, Bool(FALSE), EmptyObj),
      UserRecord(Str(ab), Str(<<"b">>), Str(<<"b">>), Str(AB), Bool(TRUE),
                 ("displayName" :> Str(<<"b">>)) @@ ("id" :> Str(<<"b">>))) }

GroupRecords ==
    { GroupRecord(Str(<<"a">>), Str(ab), Null, EmptyObj),
      GroupRecord(Str(ab), Str(<<"B">>), Str(<<"a">>), ("displayName" :> Str(ab))) }

NoRecord == GroupRecord(Null, Null, Null, EmptyObj)

\* sanitizeBooleanStrings, on the top-level values of the payload.
SanitizeBooleanStrings(payload) ==
    [k \in DOMAIN payload |->
        IF IsBooleanWordText(payload[k]) THEN Bool(StrLower(payload[k].s) = TrueWord)
        ELSE payload[k]]

\* x ?? undefined
OrUndefined(v) == IF v.t = "null" THEN Undefined ELSE v

\* toScimUserResource, without schemas and meta.
ToScimUserResource(user) ==
    ObjMerge(ObjDel(SanitizeBooleanStrings(user.rawPayload), {"id"}),
             ("id" :> user.scimId) @@ ("userName" :> user.userName)
             @@ ("externalId" :> OrUndefined(user.externalId)) @@ ("active" :> user.active))

\* toScimGroupResource, without schemas, members and meta.
ToScimGroupResource(group) ==
    ObjMerge(ObjDel(group.rawPayload, {"displayName", "members", "externalId", "id"}),
             ("id" :> group.scimId) @@ ("externalId" :> OrUndefined(group.externalId))
             @@ ("displayName" :> group.displayName))

ToScimResource(kind, record) ==
    IF kind = "user" THEN ToScimUserResource(record) ELSE ToScimGroupResource(record)

NoFilter == [type |-> "none"]

FilterAttrs ==
    {"userName", "UserName", "displayName", "externalId", "id", "active", "emails.value"}

ValueOps == {"eq", "ne", "co", "sw", "ew", "gt", "ge", "lt", "le"}

Literals ==
    {Quoted(ab), Quoted(AB), Quoted(<<"b">>), Quoted(TrueQuoted),
     Bare(TrueWord), Bare(FalseWord), Bare(<<"5">>)}

\* Every comparison over the attributes, operators and literals above.
CompareSrcs ==
    {Compare(a, op, lit) : a \in FilterAttrs, op \in ValueOps, lit \in Literals}
    \cup {Compare(a, "pr", NoLiteral) : a \in FilterAttrs}

\* The comparisons that compound filters are built from: two that can be
\* pushed, one on an attribute without a column, one with an operator the
\* column type does not take.
CoreSrcs ==
    { Compare("userName", "eq", Quoted(ab)),
      Compare("active", "eq", Bare(TrueWord)),
      Compare("emails.value", "eq", Quoted(ab)),
      Compare("active", "co", Quoted(<<"b">>)) }

\* Filters of nesting depth at most d.
RECURSIVE CompoundSrcs(_)
CompoundSrcs(d) ==
    IF d <= 1 THEN CoreSrcs
    ELSE LET sub == CompoundSrcs(d - 1)
         IN  sub
             \cup {Logical(op, l, r) : op \in {"and", "or"}, l \in sub, r \in CoreSrcs}
             \cup {Logical(op, l, r) : op \in {"and", "or"}, l \in CoreSrcs, r \in sub}
             \cup {Not(x) : x \in CoreSrcs}
             \cup {ValuePathNode("emails", Compare("type", "eq", Quoted(<<"b">>)))}

FilterSrcs == {NoFilter} \cup CompareSrcs \cup CompoundSrcs(MaxDepth)

NoFilterResult == FilterResult(EmptyObj, FALSE, FALSE)

FilterOff ==
    /\ fPhase = "off"
    /\ fKind = "user"
    /\ fSrc = NoFilter
    /\ fAst = NoFilter
    /\ fResult = NoFilterResult
    /\ fRecord = NoRecord
    /\ fDbMatch = FALSE
    /\ fListed = FALSE

FilterStart ==
    /\ fPhase = "idle"
    /\ fKind \in {"user", "group"}
    /\ fSrc = NoFilter
    /\ fAst = NoFilter
    /\ fResult = NoFilterResult
    /\ fRecord = NoRecord
    /\ fDbMatch = FALSE
    /\ fListed = FALSE

\* buildUserFilter / buildGroupFilter with the given column map.
BuildFilter(kind, columnMap, src) ==
    /\ fPhase = "idle"
    /\ fKind = kind
    /\ fPhase' = "built"
    /\ fSrc' = src
    /\ fAst' = IF src = NoFilter THEN NoFilter ELSE ParseScimFilter(src)
    /\ fResult' = IF src = NoFilter THEN NoFilterResult
                  ELSE BuildFilterResult(fAst', columnMap)
    /\ UNCHANGED <<fKind, fRecord, fDbMatch, fListed>>
    /\ UNCHANGED <<gvars, uvars, svars>>

BuildUserFilter(src) == BuildFilter("user", USER_DB_COLUMNS, src)

BuildGroupFilter(src) == BuildFilter("group", GROUP_DB_COLUMNS, src)

\* The list operation, for one stored record: the repository selects it by
\* dbWhere, then the in-memory filter, when there is one, is applied to its
\* resource.
ListRecord(kind, record) ==
    /\ fPhase = "built"
    /\ fKind = kind
    /\ fPhase' = "listed"
    /\ fRecord' = record
    /\ fDbMatch' = MatchesPrismaFilter(record, fResult.dbWhere)
    /\ fListed' = (fDbMatch' /\ (fResult.inMemoryFilter =>
                                    EvaluateFilter(fAst, ToScimResource(kind, record))))
    /\ UNCHANGED <<fKind, fSrc, fAst, fResult>>
    /\ UNCHANGED <<gvars, uvars, svars>>

ListUsers(record) == ListRecord("user", record)

ListGroups(record) == ListRecord("group", record)

NextFilter ==
    \/ fPhase = "idle" /\ \E src \in FilterSrcs : BuildUserFilter(src)
    \/ fPhase = "idle" /\ \E src \in FilterSrcs : BuildGroupFilter(src)
    \/ fPhase = "built" /\ \E record \in UserRecords : ListUsers(record)
    \/ fPhase = "built" /\ \E record \in GroupRecords : ListGroups(record)

-----------------------------------------------------------------------------
(* The services: patchGroupForEndpoint and patchUserForEndpoint *)

RECURSIVE GroupFold(_, _, _)
\* The for loop of GroupPatchEngine.apply: the first throw ends it.
GroupFold(operations, w, config) ==
    IF operations = <<>> THEN Ok(w)
    ELSE CHOOSE out \in
            { IF r.ok THEN GroupFold(Tail(operations), r.st, config) ELSE r :
                 r \in {GroupHandle(Head(operations), w, config)} } : TRUE

\* GroupPatchEngine.apply: the result holds displayName, externalId, members
\* and the payload (under rawPayload here).
GroupApply(operations, state, config) ==
    GroupFold(operations,
              GroupLocals(state.displayName, state.externalId, state.members,
                          state.rawPayload),
              config)

RECURSIVE UserFold(_, _, _)
\* The for loop of UserPatchEngine.apply: the first throw ends it.
UserFold(operations, w, config) ==
    IF operations = <<>> THEN Ok(w)
    ELSE CHOOSE out \in
            { IF r.ok THEN UserFold(Tail(operations), r.st, config) ELSE r :
                 r \in {UserHandle(Head(operations), w, config)} } : TRUE

\* UserPatchEngine.apply: st is the UserPatchResult when ok.
UserApply(operations, state, config) ==
    LET r == UserFold(operations, EnterLocals(state), config)
    IN  IF r.ok THEN [ok |-> TRUE, st |-> UserResult(r.st), err |-> NoError]
        ELSE [ok |-> FALSE, st |-> NoUserResult, err |-> r.err]

\* String(status)
StatusText(status) ==
    CASE status = 400 -> "400" [] status = 404 -> "404"
      [] status = 409 -> "409" [] status = 500 -> "500"

\* Mutant of CreateScimError: every failure is answered as a bare 500.
CreateScimError_Internal(status, scimType, detail) ==
    [status |-> 500,
     body |-> [detail |-> "Internal server error", scimType |-> "", status |-> "500"]]

\* createScimError: an HttpException with the status and the SCIM error body.
CreateScimError(status, scimType, detail) ==
    [status |-> status,
     body |-> [detail |-> detail, scimType |-> scimType, status |-> StatusText(status)]]

NoScimError == [status |-> 0, body |-> [detail |-> "", scimType |-> "", status |-> ""]]

RECURSIVE JsonValue(_)
\* JSON.parse(JSON.stringify(v)): a property whose value is undefined is
\* dropped, an undefined array element becomes null.
JsonValue(v) ==
    CASE v.t = "object" ->
            Obj([k \in {key \in DOMAIN v.o : v.o[key].t # "undefined"} |-> JsonValue(v.o[k])])
      [] v.t = "array" ->
            Arr([i \in 1..Len(v.items) |->
                    IF v.items[i].t = "undefined" THEN Null ELSE JsonValue(v.items[i])])
      [] OTHER -> v

\* x ?? null
OrNull(v) == IF v.t = "undefined" THEN Null ELSE v

NoRow == [exists |-> FALSE]

\* A group with its member rows, as findWithMembers returns it.
GroupRow(displayName, externalId, members, rawPayload) ==
    [exists |-> TRUE, scimId |-> Str("g1"), displayName |-> displayName,
     externalId |-> externalId, members |-> members, rawPayload |-> rawPayload]

MemberRow(userId, value, type, display) ==
    [userId |-> userId, value |-> value, type |-> type, display |-> display]

UserRow(userName, displayName, externalId, active, rawPayload) ==
    [exists |-> TRUE, scimId |-> Str("a"), userName |-> userName,
     displayName |-> displayName, externalId |-> externalId, active |-> active,
     rawPayload |-> rawPayload]

\* memberRecordsToDtos
MemberRecordsToDtos(members) ==
    [i \in 1..Len(members) |->
        Member(members[i].value, OrUndefined(members[i].display),
               OrUndefined(members[i].type))]

\* userRepo.findByScimIds: the users of the endpoint, scimId -> id.
KnownUsers == ("u1" :> "id-1") @@ ("u2" :> "id-2") @@ ("u3" :> "id-3")

\* resolveMemberInputs
ResolveMemberInputs(memberDtos) ==
    [i \in 1..Len(memberDtos) |->
        MemberRow(IF memberDtos[i].value.t = "string"
                     /\ memberDtos[i].value.s \in DOMAIN KnownUsers
                  THEN Str(KnownUsers[memberDtos[i].value.s]) ELSE Null,
                  memberDtos[i].value, OrNull(memberDtos[i].type),
                  OrNull(memberDtos[i].display))]

\* groupRepo.updateGroupWithMembers: the columns are set and the member rows
\* of the group are replaced by the given ones, in one transaction.
UpdateGroupWithMembers(row, data, memberInputs) ==
    [row EXCEPT !.displayName = data.displayName, !.externalId = data.externalId,
                !.rawPayload = data.rawPayload, !.members = memberInputs]

\* Another user of the endpoint.
OtherUser == [userName |-> "other@example.com", externalId |-> "ext-9"]

\* userRepo.findConflict: another user has the userName (in any letter case)
\* or the externalId.
FindConflict(userName, externalId) ==
    \/ userName.t = "string" /\ ToLowerCase(userName.s) = ToLowerCase(OtherUser.userName)
    \/ externalId.t = "string" /\ externalId.s = OtherUser.externalId

\* x ?? y
Coalesce(x, y) == IF x.t \in {"null", "undefined"} THEN y ELSE x

\* The PATCH requests that may be in flight together.
Requests == {1, 2}

EngineNotRun == [ok |-> FALSE, st |-> <<>>, err |-> NoError]

\* A request at its entry: kind is "group" or "user"; schemasOk tells whether
\* dto.schemas names the PatchOp schema; config holds the endpoint's flags.
NewRequest(kind, schemasOk, operations, config) ==
    [kind |-> kind, schemasOk |-> schemasOk, operations |-> operations,
     config |-> config, pc |-> "start", loaded |-> NoRow, engineRan |-> FALSE,
     engine |-> EngineNotRun, unique |-> FALSE, inputs |-> <<>>,
     error |-> NoScimError, wrote |-> FALSE, response |-> NoRow]

NoRequest == [NewRequest("none", TRUE, <<>>, <<>>) EXCEPT !.pc = "none"]

StrictFlags == [allowMultiMemberAdd |-> FALSE, allowMultiMemberRemove |-> FALSE,
                allowRemoveAllMembers |-> FALSE]
LenientFlags == [allowMultiMemberAdd |-> TRUE, allowMultiMemberRemove |-> TRUE,
                 allowRemoveAllMembers |-> TRUE]

AddU3 == <<Op("add", Path("members"), Arr(<<MemberRef("u3")>>))>>
AddU4 == <<Op("add", Path("members"), Arr(<<MemberObj("u4", "D")>>))>>

GroupRequests ==
    { NewRequest("group", TRUE, AddU3, StrictFlags),
      NewRequest("group", TRUE, AddU4, StrictFlags),
      NewRequest("group", TRUE,
                 <<Op("Replace", Path("DISPLAYNAME"), Str("Sales")),
                   Op("remove", NoPath, Undefined)>>, StrictFlags),
      NewRequest("group", TRUE, <<Op("remove", Path("members"), Undefined)>>, LenientFlags),
      NewRequest("group", FALSE, AddU3, StrictFlags) }

UserRequests ==
    { NewRequest("user", TRUE, <<Op("replace", Path("displayName"), Str("Johnny"))>>,
                 [verbosePatch |-> FALSE]),
      NewRequest("user", TRUE, <<Op("replace", Path("userName"), Str("other@example.com"))>>,
                 [verbosePatch |-> FALSE]),
      NewRequest("user", TRUE,
                 <<Op("replace", Path("title"), Str("Dr")),
                   Op("replace", Path("active"), Str("maybe"))>>,
                 [verbosePatch |-> FALSE]),
      NewRequest("user", FALSE, <<Op("replace", Path("title"), Str("Dr"))>>,
                 [verbosePatch |-> FALSE]) }

StoredGroup ==
    GroupRow(Str("Engineering"), Str("grp-001"),
             <<MemberRow(Str("id-1"), Str("u1"), Null, Str("A")),
               MemberRow(Str("id-2"), Str("u2"), Null, Str("B"))>>,
             ("custom" :> Str("old")))

StoredUser ==
    UserRow(Str("jdoe@example.com"), Str("John"), Null, Bool(TRUE),
            ("displayName" :> Str("John")) @@ ("title" :> Str("Mr")))

ServiceOff ==
    /\ sGroup = NoRow
    /\ sUser = NoRow
    /\ sReq = [r \in Requests |-> NoRequest]

ServiceStart ==
    /\ sGroup \in {StoredGroup, NoRow}
    /\ sUser \in {StoredUser, NoRow}
    /\ sReq \in [Requests -> GroupRequests \cup UserRequests \cup {NoRequest}]

Fail(req, error) == [req EXCEPT !.pc = "failed", !.error = error]

\* patchGroupForEndpoint up to the first await: ensureSchema, then
\* groupRepo.findWithMembers and the 404 when there is no such group.
PatchGroupFind(r) ==
    /\ sReq[r].kind = "group"
    /\ sReq[r].pc = "start"
    /\ sReq' = [sReq EXCEPT ![r] =
          IF ~@.schemasOk
          THEN Fail(@, CreateScimError(400, "invalidSyntax", "missing schema"))
          ELSE IF ~sGroup.exists
          THEN Fail(@, CreateScimError(404, "noTarget", "not found"))
          ELSE [@ EXCEPT !.pc = "found", !.loaded = sGroup]]
    /\ UNCHANGED <<sGroup, sUser>>
    /\ UNCHANGED <<gvars, uvars, fvars>>

\* GroupPatchEngine.apply on the loaded group; a PatchError becomes a SCIM
\* error with its status, scimType and message.
PatchGroupApply(r) ==
    /\ sReq[r].kind = "group"
    /\ sReq[r].pc = "found"
    /\ LET req == sReq[r]
           patchResult ==
               GroupApply(req.operations,
                          [displayName |-> req.loaded.displayName,
                           externalId |-> Coalesce(req.loaded.externalId, Null),
                           members |-> MemberRecordsToDtos(req.loaded.members),
                           rawPayload |-> req.loaded.rawPayload],
                          req.config)
           ran == [req EXCEPT !.engineRan = TRUE, !.engine = patchResult]
       IN  sReq' = [sReq EXCEPT ![r] =
              IF ~patchResult.ok
              THEN Fail(ran, CreateScimError(patchResult.err.status,
                                             patchResult.err.scimType,
                                             patchResult.err.message))
              ELSE [ran EXCEPT !.pc = IF Len(patchResult.st.members) > 0
                                      THEN "resolve" ELSE "update"]]
    /\ UNCHANGED <<sGroup, sUser>>
    /\ UNCHANGED <<gvars, uvars, fvars>>

\* await this.resolveMemberInputs(memberDtos, endpointId)
PatchGroupResolve(r) ==
    /\ sReq[r].kind = "group"
    /\ sReq[r].pc = "resolve"
    /\ sReq' = [sReq EXCEPT ![r] =
          [@ EXCEPT !.pc = "update",
                    !.inputs = ResolveMemberInputs(sReq[r].engine.st.members)]]
    /\ UNCHANGED <<sGroup, sUser>>
    /\ UNCHANGED <<gvars, uvars, fvars>>

\* await this.groupRepo.updateGroupWithMembers(group.id, {...}, memberInputs)
PatchGroupUpdate(r) ==
    /\ sReq[r].kind = "group"
    /\ sReq[r].pc = "update"
    /\ sGroup.exists
    /\ LET res == sReq[r].engine.st
       IN  sGroup' = UpdateGroupWithMembers(
                        sGroup,
                        [displayName |-> res.displayName, externalId |-> res.externalId,
                         rawPayload |-> JsonValue(Obj(res.rawPayload)).o],
                        sReq[r].inputs)
    /\ sReq' = [sReq EXCEPT ![r] = [@ EXCEPT !.pc = "reload", !.wrote = TRUE]]
    /\ UNCHANGED sUser
    /\ UNCHANGED <<gvars, uvars, fvars>>

\* The transaction fails: nothing is written and the service answers 500.
PatchGroupUpdateFails(r) ==
    /\ sReq[r].kind = "group"
    /\ sReq[r].pc = "update"
    /\ sReq' = [sReq EXCEPT ![r] =
          Fail(@, CreateScimError(500, "", "Failed to update group"))]
    /\ UNCHANGED <<sGroup, sUser>>
    /\ UNCHANGED <<gvars, uvars, fvars>>

\* The second findWithMembers and the response built from it.
PatchGroupReload(r) ==
    /\ sReq[r].kind = "group"
    /\ sReq[r].pc = "reload"
    /\ sReq' = [sReq EXCEPT ![r] =
          IF ~sGroup.exists
          THEN Fail(@, CreateScimError(500, "", "Failed to retrieve updated group"))
          ELSE [@ EXCEPT !.pc = "done",
                         !.response = [resource |-> ToScimGroupResource(sGroup),
                                       members |-> MemberRecordsToDtos(sGroup.members)]]]
    /\ UNCHANGED <<sGroup, sUser>>
    /\ UNCHANGED <<gvars, uvars, fvars>>

\* patchUserForEndpoint up to the first await: ensureSchema, then
\* userRepo.findByScimId and the 404 when there is no such user.
PatchUserFind(r) ==
    /\ sReq[r].kind = "user"
    /\ sReq[r].pc = "start"
    /\ sReq' = [sReq EXCEPT ![r] =
          IF ~@.schemasOk
          THEN Fail(@, CreateScimError(400, "invalidSyntax", "missing schema"))
          ELSE IF ~sUser.exists
          THEN Fail(@, CreateScimError(404, "noTarget", "not found"))
          ELSE [@ EXCEPT !.pc = "found", !.loaded = sUser]]
    /\ UNCHANGED <<sGroup, sUser>>
    /\ UNCHANGED <<gvars, uvars, fvars>>

\* applyPatchOperationsForEndpoint up to its await: UserPatchEngine.apply on
\* the loaded user; a PatchError becomes a SCIM error.
PatchUserApply(r) ==
    /\ sReq[r].kind = "user"
    /\ sReq[r].pc = "found"
    /\ LET req == sReq[r]
           result ==
               UserApply(req.operations,
                         UserState(req.loaded.userName,
                                   Coalesce(req.loaded.displayName, Null),
                                   Coalesce(req.loaded.externalId, Null),
                                   req.loaded.active, req.loaded.rawPayload),
                         req.config)
           ran == [req EXCEPT !.engineRan = TRUE, !.engine = result]
       IN  sReq' = [sReq EXCEPT ![r] =
              IF ~result.ok
              THEN Fail(ran, CreateScimError(result.err.status, result.err.scimType,
                                             result.err.message))
              ELSE [ran EXCEPT !.pc = "unique"]]
    /\ UNCHANGED <<sGroup, sUser>>
    /\ UNCHANGED <<gvars, uvars, fvars>>

\* await this.assertUniqueIdentifiersForEndpoint(...), then the update input.
PatchUserAssertUnique(r) ==
    /\ sReq[r].kind = "user"
    /\ sReq[r].pc = "unique"
    /\ LET req == sReq[r]
           extractedFields == req.engine.st.extractedFields
       IN  sReq' = [sReq EXCEPT ![r] =
              IF FindConflict(Coalesce(extractedFields.userName, req.loaded.userName),
                              OrUndefined(extractedFields.externalId))
              THEN Fail(@, CreateScimError(409, "uniqueness", "already exists"))
              ELSE [@ EXCEPT !.pc = "update", !.unique = TRUE,
                             !.inputs =
                                [userName |-> extractedFields.userName,
                                 displayName |-> extractedFields.displayName,
                                 externalId |-> extractedFields.externalId,
                                 active |-> extractedFields.active,
                                 rawPayload |-> JsonValue(Obj(req.engine.st.payload)).o]]]
    /\ UNCHANGED <<sGroup, sUser>>
    /\ UNCHANGED <<gvars, uvars, fvars>>

\* await this.userRepo.update(user.id, updatedData) and the response.
PatchUserUpdate(r) ==
    /\ sReq[r].kind = "user"
    /\ sReq[r].pc = "update"
    /\ sUser.exists
    /\ LET data == sReq[r].inputs
       IN  sUser' = [sUser EXCEPT !.userName = data.userName,
                                  !.displayName = data.displayName,
                                  !.externalId = data.externalId,
                                  !.active = data.active,
                                  !.rawPayload = data.rawPayload]
    /\ sReq' = [sReq EXCEPT ![r] = [@ EXCEPT !.pc = "done", !.wrote = TRUE,
                                             !.response = sUser']]
    /\ UNCHANGED sGroup
    /\ UNCHANGED <<gvars, uvars, fvars>>

NextService ==
    \E r \in Requests :
        \/ PatchGroupFind(r)
        \/ PatchGroupApply(r)
        \/ PatchGroupResolve(r)
        \/ PatchGroupUpdate(r)
        \/ PatchGroupUpdateFails(r)
        \/ PatchGroupReload(r)
        \/ PatchUserFind(r)
        \/ PatchUserApply(r)
        \/ PatchUserAssertUnique(r)
        \/ PatchUserUpdate(r)

-----------------------------------------------------------------------------
(* Specifications *)

InitGroup == GroupStart /\ UserOff /\ FilterOff /\ ServiceOff

InitUser == GroupOff /\ UserStart /\ FilterOff /\ ServiceOff

InitPatch ==
    \/ GroupStart /\ UserOff /\ FilterOff /\ ServiceOff
    \/ GroupOff /\ UserStart /\ FilterOff /\ ServiceOff

InitFilter == GroupOff /\ UserOff /\ FilterStart /\ ServiceOff

InitService == GroupOff /\ UserOff /\ FilterOff /\ ServiceStart

NextPatch == NextGroup \/ NextUser

SpecGroup == InitGroup /\ [][NextGroup]_vars

SpecUser == InitUser /\ [][NextUser]_vars

SpecPatch == InitPatch /\ [][NextPatch]_vars

SpecFilter == InitFilter /\ [][NextFilter]_vars

SpecService == InitService /\ [][NextService]_vars

-----------------------------------------------------------------------------
(* Filters: properties *)

ColumnMapOf(kind) == IF kind = "user" THEN USER_DB_COLUMNS ELSE GROUP_DB_COLUMNS

FilterBuilt == fPhase \in {"built", "listed"} /\ fAst # NoFilter

\* The planner marked the AST pushable.
Pushable(ast, kind) == Truthy(TryPushToDb(ast, ColumnMapOf(kind)))

\* C1: for every AST the planner marks pushable and every record, the
\* storage predicate evaluated by matchesPrismaFilter on the record gives
\* the same boolean as the in-memory evaluator gives for the AST on the
\* record's resource.
C1_PushDownAgreesWithEvaluator ==
    (fPhase = "listed" /\ fAst # NoFilter /\ Pushable(fAst, fKind)) =>
        fDbMatch = EvaluateFilter(fAst, ToScimResource(fKind, fRecord))

\* The node and every node below it.
RECURSIVE SubNodes(_)
SubNodes(node) ==
    {node} \cup
    CASE node.type = "logical" -> SubNodes(node.left) \cup SubNodes(node.right)
      [] node.type \in {"not", "valuePath"} -> SubNodes(node.filter)
      [] OTHER -> {}

LogicalNodes(ast) == {n \in SubNodes(ast) : n.type = "logical"}

OneSideUnpushable(n, kind) == Pushable(n.left, kind) # Pushable(n.right, kind)

\* C2: for every and/or node of the AST, at any depth, the planner returns
\* a predicate only if both children are pushable, and that predicate is
\* the AND / OR of the two children's predicates; with an unpushable side
\* the node is unpushable, and when the node is the root the builder
\* returns fetchAll = true with an empty dbWhere.
C2_LogicalAllOrNothing ==
    FilterBuilt =>
        /\ \A n \in LogicalNodes(fAst) :
              LET cols == ColumnMapOf(fKind)
                  clause == TryPushToDb(n, cols)
              IN  /\ Pushable(n, fKind) <=> (Pushable(n.left, fKind) /\ Pushable(n.right, fKind))
                  /\ ~Pushable(n, fKind) => clause = Null
                  /\ Pushable(n, fKind) =>
                        clause = Obj((IF n.op = "and" THEN "AND" ELSE "OR")
                                     :> Arr(<<TryPushToDb(n.left, cols),
                                              TryPushToDb(n.right, cols)>>))
        /\ (fAst.type = "logical" /\ ~Pushable(fAst, fKind)) =>
              /\ fResult.fetchAll
              /\ fResult.dbWhere = EmptyObj
              /\ fResult.inMemoryFilter

\* A filter was built whose root has a pushable side and, nested below the
\* other side, an and/or node with exactly one unpushable side.
C2_Witness ==
    /\ FilterBuilt
    /\ fAst.type = "logical"
    /\ OneSideUnpushable(fAst, fKind)
    /\ \E n \in LogicalNodes(fAst) \ {fAst} : OneSideUnpushable(n, fKind)
    /\ fResult.fetchAll

\* active compared for equality with a quoted true / false in any letter case.
IsQuotedBooleanEq(src) ==
    /\ src.type = "compare"
    /\ ToLowerCase(src.attrPath) = "active"
    /\ src.op = "eq"
    /\ src.value.quoted
    /\ StrLower(src.value.text) \in {TrueWord, FalseWord}

\* The same comparison written with the unquoted literal.
Unquoted(src) == Compare(src.attrPath, src.op, Bare(StrLower(src.value.text)))

\* C10: buildUserFilter on active eq "True" (a quoted true or false in any
\* letter case) gives the result it gives on the unquoted literal, dbWhere
\* being {active: true} / {active: false}, and selects the same records.
C10_QuotedBooleanCoerced ==
    (FilterBuilt /\ fKind = "user" /\ IsQuotedBooleanEq(fSrc)) =>
        /\ fResult = BuildFilterResult(ParseScimFilter(Unquoted(fSrc)), USER_DB_COLUMNS)
        /\ fResult.dbWhere = ("active" :> Bool(StrLower(fSrc.value.text) = TrueWord))
        /\ fPhase = "listed" =>
              fDbMatch = MatchesPrismaFilter(fRecord,
                            ("active" :> Bool(StrLower(fSrc.value.text) = TrueWord)))

-----------------------------------------------------------------------------
(* Planner: the predicate of a Compare node *)

SubstringOps == {"co", "sw", "ew"}

CompareBuilt == FilterBuilt /\ fAst.type = "compare"

Mapped(node, kind) == ToLowerCase(node.attrPath) \in DOMAIN ColumnMapOf(kind)

MappingOf(node, kind) == ColumnMapOf(kind)[ToLowerCase(node.attrPath)]

\* The single-column predicate for the operator, search being what the
\* substring operators carry.
ColumnPredicate(col, op, v, search) ==
    CASE op = "eq" -> Obj(col :> v)
      [] op = "ne" -> Obj(col :> Obj("not" :> v))
      [] op = "co" -> Obj(col :> Obj(("contains" :> search) @@ ("mode" :> Str(Insensitive))))
      [] op = "sw" -> Obj(col :> Obj(("startsWith" :> search) @@ ("mode" :> Str(Insensitive))))
      [] op = "ew" -> Obj(col :> Obj(("endsWith" :> search) @@ ("mode" :> Str(Insensitive))))
      [] op = "gt" -> Obj(col :> Obj("gt" :> v))
      [] op = "ge" -> Obj(col :> Obj("gte" :> v))
      [] op = "lt" -> Obj(col :> Obj("lt" :> v))
      [] op = "le" -> Obj(col :> Obj("lte" :> v))
      [] op = "pr" -> Obj(col :> Obj("not" :> Null))

CompareUnpushable(node, kind) ==
    \/ ~Mapped(node, kind)
    \/ node.op \in SubstringOps /\ MappingOf(node, kind).type \in {"boolean", "uuid"}

\* The attribute names of the model that differ from the node's at most in
\* letter case give the same plan.
SamePlanForCaseVariants(node, kind) ==
    \A a \in FilterAttrs :
        ToLowerCase(a) = ToLowerCase(node.attrPath) =>
            TryPushToDb(Compare(a, node.op, node.value), ColumnMapOf(kind))
                = TryPushToDb(node, ColumnMapOf(kind))

\* C11: a Compare node is unpushable iff its attribute, lower-cased, is
\* unmapped or the operator is co/sw/ew on a boolean or uuid column;
\* otherwise the plan is the single-column predicate of the operator on the
\* mapped column, eq/ne/gt/ge/lt/le carrying the value v as parsed and
\* co/sw/ew carrying String(v), letter case preserved; attribute names
\* that differ only in letter case give identical predicates.
C11_ComparePredicate ==
    CompareBuilt =>
        LET plan == TryPushToDb(fAst, ColumnMapOf(fKind))
        IN  /\ plan = Null <=> CompareUnpushable(fAst, fKind)
            /\ ~CompareUnpushable(fAst, fKind) =>
                  /\ plan = ColumnPredicate(MappingOf(fAst, fKind).column, fAst.op,
                                            fAst.value, Str(ToStringJS(fAst.value)))
                  /\ fResult = FilterResult(plan.o, FALSE, FALSE)
            /\ SamePlanForCaseVariants(fAst, fKind)

\* C11 as stated: co/sw/ew carry the value v itself.
C11_SubstringCarriesValue ==
    (CompareBuilt /\ ~CompareUnpushable(fAst, fKind)) =>
        TryPushToDb(fAst, ColumnMapOf(fKind))
            = ColumnPredicate(MappingOf(fAst, fKind).column, fAst.op, fAst.value, fAst.value)

\* A substring comparison on an attribute written in mixed case, with a
\* value in upper case, was pushed.
C11_Witness ==
    /\ CompareBuilt
    /\ fAst.attrPath = "UserName"
    /\ fAst.op = "co"
    /\ fAst.value = Str(AB)
    /\ fResult.dbWhere = ("userName" :> Obj(("contains" :> Str(AB)) @@ ("mode" :> Str(Insensitive))))

-----------------------------------------------------------------------------
(* Planner: not and valuePath nodes *)

HasUnpushableKind(ast) == \E n \in SubNodes(ast) : n.type \in {"not", "valuePath"}

\* C12: an AST that holds a not node or a valuePath node anywhere is
\* unpushable under either column map, and the filter result built from it
\* has fetchAll = true and an empty dbWhere.
C12_NotAndValuePathUnpushable ==
    (FilterBuilt /\ HasUnpushableKind(fAst)) =>
        /\ TryPushToDb(fAst, USER_DB_COLUMNS) = Null
        /\ TryPushToDb(fAst, GROUP_DB_COLUMNS) = Null
        /\ fResult.fetchAll
        /\ fResult.dbWhere = EmptyObj

\* A filter was built whose root is an and/or node with a pushable
\* comparison on one side and, on the other, the negation of a pushable
\* comparison.
C12_Witness ==
    /\ FilterBuilt
    /\ fAst.type = "logical"
    /\ fAst.left.type = "not"
    /\ Pushable(fAst.left.filter, fKind)
    /\ Pushable(fAst.right, fKind)
    /\ fResult.fetchAll

-----------------------------------------------------------------------------
(* Filter result shapes *)

FilterCalled == fPhase \in {"built", "listed"}

\* C13: the builders return one of three shapes.  No filter: empty dbWhere,
\* fetchAll false, no inMemoryFilter.  Pushable filter: dbWhere is the
\* storage predicate, fetchAll false, no inMemoryFilter.  Otherwise: empty
\* dbWhere, fetchAll true and an inMemoryFilter, which applied to a resource
\* is evaluateFilter of the whole AST.  A non-empty dbWhere never comes with
\* an inMemoryFilter and fetchAll is true iff there is an inMemoryFilter.
C13_FilterResultShapes ==
    FilterCalled =>
        /\ fSrc = NoFilter => fResult = FilterResult(EmptyObj, FALSE, FALSE)
        /\ (fSrc # NoFilter /\ Pushable(fAst, fKind)) =>
              fResult = FilterResult(TryPushToDb(fAst, ColumnMapOf(fKind)).o, FALSE, FALSE)
        /\ (fSrc # NoFilter /\ ~Pushable(fAst, fKind)) =>
              /\ fResult = FilterResult(EmptyObj, TRUE, TRUE)
              /\ fPhase = "listed" =>
                    /\ fDbMatch
                    /\ fListed = EvaluateFilter(fAst, ToScimResource(fKind, fRecord))
        /\ fResult.dbWhere # EmptyObj => ~fResult.inMemoryFilter
        /\ fResult.fetchAll <=> fResult.inMemoryFilter

\* A filter with a pushable side and an unmapped side fell back: every
\* stored record was fetched and the evaluator kept this one.
C13_Witness ==
    /\ fPhase = "listed"
    /\ fAst.type = "logical"
    /\ OneSideUnpushable(fAst, fKind)
    /\ fResult = FilterResult(EmptyObj, TRUE, TRUE)
    /\ fDbMatch
    /\ fListed

-----------------------------------------------------------------------------
(* UserPatchEngine: the active attribute *)

UserOpKind == ToLowerCase(uLastOp.op)

\* The last operation handled was an add or a replace.
UserAddOrReplace == uN > 0 /\ UserOpKind \in {"add", "replace"}

\* The call is still going, or returned, right after the last operation.
UserAccepted == uPhase \in {"running", "returned"}

UserRejected(scimType) ==
    /\ uPhase = "thrown"
    /\ uErr.status = 400
    /\ uErr.scimType = scimType

\* The words "true" and "false" in the letter cases of the inputs.
TrueWords == {"true", "True", "TRUE"}
FalseWords == {"false", "False", "FALSE"}

\* The boolean a value stands for, as a set: empty when it stands for none.
BooleanOf(x) ==
    IF x.t = "boolean" THEN {x.b}
    ELSE IF x.t = "string" /\ x.s \in TrueWords THEN {TRUE}
    ELSE IF x.t = "string" /\ x.s \in FalseWords THEN {FALSE}
    ELSE {}

ActiveMeant(value) ==
    IF BooleanOf(value) # {} THEN BooleanOf(value)
    ELSE IF value.t = "object" /\ "active" \in DOMAIN value.o
    THEN BooleanOf(value.o["active"])
    ELSE {}

IsActiveWrite ==
    /\ UserAddOrReplace
    /\ uLastOp.path.present
    /\ PathString(uLastOp.path) \in {"active", "Active"}

\* C14: an add or replace on path active (any letter case) sets the
\* extracted active field to the boolean the value stands for (a boolean, the
\* word true or false in any case, or an object whose active property is one
\* of those); every other value is rejected with 400 invalidValue.
C14_ActiveCoercion ==
    IsActiveWrite =>
        IF ActiveMeant(uLastOp.value) # {}
        THEN /\ UserAccepted
             /\ uWork.active.t = "boolean"
             /\ uWork.active.b \in ActiveMeant(uLastOp.value)
             /\ uPhase = "returned" =>
                   uResult.extractedFields.active = uWork.active
        ELSE UserRejected("invalidValue")

\* replace active "False" on a user that was active returned active = false.
C14_Witness ==
    /\ uPhase = "returned"
    /\ IsActiveWrite
    /\ uLastOp.value = Str("False")
    /\ uState0.active = Bool(TRUE)
    /\ uPrev.active = Bool(TRUE)
    /\ uResult.extractedFields.active = Bool(FALSE)

-----------------------------------------------------------------------------
(* UserPatchEngine: simple paths *)

\* No two top-level keys of the payload differ only in letter case.
NoCaseDuplicates(payload) ==
    \A j, k \in DOMAIN payload : ToLowerCase(j) = ToLowerCase(k) => j = k

FirstClassNames == {"active", "username", "displayname", "externalid"}

\* The last operation was an add or replace that took the simple-path branch
\* of applyAddOrReplace.
IsSimpleWrite ==
    /\ UserAddOrReplace
    /\ ~PathFalsy(uLastOp.path)
    /\ ~IsExtensionPath(uLastOp.path)
    /\ ~IsValuePath(uLastOp.path)
    /\ ~HasDot(uLastOp.path)
    /\ ToLowerCase(uLastOp.path.attr) \notin FirstClassNames

\* C15: an add or replace on a simple path writes to the existing top-level
\* attribute that matches the path case-insensitively: when the payload had
\* no two keys differing only in letter case before the operation, it has
\* none after it, and so none in the payload that apply returns.
C15_SimpleWriteKeepsOneSpelling ==
    (uPhase = "returned" /\ IsSimpleWrite /\ NoCaseDuplicates(uPrev.rawPayload)) =>
        NoCaseDuplicates(uResult.payload)

-----------------------------------------------------------------------------
(* UserPatchEngine: operations without a path *)

IsNoPathWrite == UserAddOrReplace /\ PathFalsy(uLastOp.path)

NonObjectTypes == {"string", "number", "boolean", "null", "undefined"}

\* C16: an add or replace without a path whose value is not an object (a
\* string, a number, a boolean, null or a missing value) makes apply fail
\* with 400 invalidValue; such an operation is never accepted.
C16_NoPathNonObjectRejected ==
    (IsNoPathWrite /\ uLastOp.value.t \in NonObjectTypes) =>
        UserRejected("invalidValue")

FirstClassFields == {"userName", "displayName", "externalId", "active"}

\* The keys of an object that name a first-class field in some letter case.
KeysNaming(obj, field) == {k \in DOMAIN obj : ToLowerCase(k) = ToLowerCase(field)}

FieldValueValid(field, x) ==
    CASE field = "userName" -> x.t = "string"
      [] field \in {"displayName", "externalId"} -> x.t \in {"string", "null", "undefined"}
      [] field = "active" -> ActiveMeant(x) # {}

\* The validated value of a first-class field, for a valid x.
FieldValueMeant(field, x) ==
    CASE field = "userName" -> x
      [] field \in {"displayName", "externalId"} ->
            IF x.t = "string" THEN x ELSE Null
      [] field = "active" -> Bool(CHOOSE b \in ActiveMeant(x) : TRUE)

IsNoPathObjectWrite == IsNoPathWrite /\ uLastOp.value.t = "object"

IsPathlessRemove == uN > 0 /\ UserOpKind = "remove" /\ PathFalsy(uLastOp.path)

\* C18: a remove whose path is absent or empty makes apply fail with 400
\* noTarget, at whatever position of the batch it stands, and apply returns
\* no result.
C18_PathlessRemoveRejected ==
    IsPathlessRemove =>
        /\ UserRejected("noTarget")
        /\ uResult = NoUserResult

\* A remove with the empty path, second in its batch after an accepted
\* operation that changed the payload, was rejected.
C18_Witness ==
    /\ uN = 2
    /\ IsPathlessRemove
    /\ uLastOp.path = Path("")
    /\ uPrev.rawPayload # uState0.rawPayload
    /\ uPhase = "thrown"
    /\ uErr.scimType = "noTarget"

-----------------------------------------------------------------------------
(* GroupPatchEngine: removing members *)

GroupRejected(scimType) ==
    /\ gPhase = "thrown"
    /\ gErr.status = 400
    /\ gErr.scimType = scimType

\* A remove with path members (any letter case) that carries a non-empty
\* value array.
IsArrayRemove(operation) ==
    /\ GroupOpKind(operation) = "remove"
    /\ PathIs(PathToLowerCase(operation.path), "members")
    /\ operation.value.t = "array"
    /\ Len(operation.value.items) > 0

\* The member values that the entries of a value array list.
ListedValues(value) ==
    {value.items[i].o["value"] :
        i \in {j \in 1..Len(value.items) :
                 value.items[j].t = "object" /\ "value" \in DOMAIN value.items[j].o}}

KeepsUnlisted(m) == m.value \notin ListedValues(gLastOp.value)

\* C19: a remove with path members and a non-empty value array removes
\* exactly the listed members and keeps the others in order; with more than
\* one entry and allowMultiMemberRemove false it fails with 400 invalidValue
\* and removes nothing; with exactly one entry it is accepted whatever the
\* flag.
C19_ArrayRemove ==
    (GroupHandled /\ IsArrayRemove(gLastOp)) =>
        IF Len(gLastOp.value.items) > 1 /\ ~gCfg.allowMultiMemberRemove
        THEN /\ GroupRejected("invalidValue")
             /\ gWork.members = gPrev.members
        ELSE /\ gPhase # "thrown"
             /\ gWork.members = SelectSeq(gPrev.members, KeepsUnlisted)

\* With the flag off, one listed member was removed from a list of three and
\* the two others stayed in order.
C19_Witness ==
    /\ GroupHandled
    /\ IsArrayRemove(gLastOp)
    /\ ~gCfg.allowMultiMemberRemove
    /\ Len(gLastOp.value.items) = 1
    /\ gPhase = "returned"
    /\ Len(gPrev.members) = 3
    /\ gWork.members = <<StoredBare("U1"), Stored("u2", "B")>>

\* A remove with the bare path members (any letter case) and no value.
IsBareMembersRemove(operation) ==
    /\ GroupOpKind(operation) = "remove"
    /\ PathIs(PathToLowerCase(operation.path), "members")
    /\ operation.value = Undefined

\* The value array of the operation lists every member of the list.
ListsThemAll(operation, members) ==
    /\ operation.value.t = "array"
    /\ \A i \in 1..Len(members) : members[i].value \in ListedValues(operation.value)

\* C20, first part: a remove with the bare path members and no value empties
\* the member list when allowRemoveAllMembers is set, and otherwise fails
\* with 400 and leaves the list as it was.
C20_RemoveAllGated ==
    (GroupHandled /\ IsBareMembersRemove(gLastOp)) =>
        IF gCfg.allowRemoveAllMembers
        THEN gPhase # "thrown" /\ gWork.members = <<>>
        ELSE gPhase = "thrown" /\ gErr.status = 400 /\ gWork.members = gPrev.members

\* C20: as above, and with allowRemoveAllMembers false no single remove
\* takes the member list from two or more members to empty unless its value
\* array lists them all.
C20_NoEmptyingWithoutFlag ==
    /\ C20_RemoveAllGated
    /\ (/\ GroupHandled
        /\ GroupOpKind(gLastOp) = "remove"
        /\ ~gCfg.allowRemoveAllMembers
        /\ Len(gPrev.members) >= 2
        /\ gWork.members = <<>>)
       => ListsThemAll(gLastOp, gPrev.members)

-----------------------------------------------------------------------------
(* GroupPatchEngine: duplicate member values *)

GroupAccepted == gPhase \in {"running", "returned"}

\* The member entries an operation supplies: those of an add, of a replace
\* on path members, or of the members array of a no-path replace.
SuppliedItems(operation) ==
    LET value == operation.value
        path == PathToLowerCase(operation.path)
    IN  IF GroupOpKind(operation) = "add"
        THEN (IF value.t = "array" THEN value.items ELSE <<value>>)
        ELSE IF GroupOpKind(operation) = "replace" /\ PathIs(path, "members")
                /\ value.t = "array"
        THEN value.items
        ELSE IF GroupOpKind(operation) = "replace" /\ PathFalsy(path)
                /\ value.t = "object" /\ "members" \in DOMAIN value.o
                /\ value.o["members"].t = "array"
        THEN value.o["members"].items
        ELSE <<>>

\* The entry a supplied member object stands for: an omitted display or type
\* is undefined.
EntryOf(item) ==
    [value |-> item.o["value"],
     display |-> IF "display" \in DOMAIN item.o THEN item.o["display"] ELSE Undefined,
     type |-> IF "type" \in DOMAIN item.o THEN item.o["type"] ELSE Undefined]

\* All occurrences in supply order: the existing list first (for an add),
\* then the supplied entries.
Occurrences(operation, existing) ==
    LET items == SuppliedItems(operation)
        supplied == [i \in 1..Len(items) |-> EntryOf(items[i])]
    IN  IF GroupOpKind(operation) = "add" THEN existing \o supplied ELSE supplied

LastOccurrence(occ, v) ==
    occ[CHOOSE i \in 1..Len(occ) :
          /\ occ[i].value = v
          /\ \A j \in 1..Len(occ) : occ[j].value = v => j <= i]

IsMembersWrite == GroupHandled /\ GroupAccepted /\ SuppliedItems(gLastOp) # <<>>

\* C21: when a member value occurs more than once across the existing list
\* and the entries supplied by an add or a replace of members, the result
\* keeps a single entry for it, which carries the display and type of the
\* last occurrence; a display or type omitted there overrides an earlier one.
C21_LastWriteWins ==
    IsMembersWrite =>
        LET occ == Occurrences(gLastOp, gPrev.members)
        IN  \A i \in 1..Len(occ) :
               /\ Cardinality({k \in 1..Len(gWork.members) :
                                  gWork.members[k].value = occ[i].value}) = 1
               /\ \A k \in 1..Len(gWork.members) :
                     gWork.members[k].value = occ[i].value =>
                        gWork.members[k] = LastOccurrence(occ, occ[i].value)

\* An add of {u1, display C} and {u2} to [u1 A, u2 B]: u1 now shows C and
\* u2 has lost its display.
C21_Witness ==
    /\ IsMembersWrite
    /\ GroupOpKind(gLastOp) = "add"
    /\ gPrev.members = <<Stored("u1", "A"), Stored("u2", "B")>>
    /\ gWork.members = <<Stored("u1", "C"), StoredBare("u2")>>

-----------------------------------------------------------------------------
(* GroupPatchEngine: replace without a path *)

IsNoPathReplace ==
    GroupHandled /\ GroupOpKind(gLastOp) = "replace" /\ PathFalsy(gLastOp.path)

NamedKeys == {"displayName", "externalId", "members", "schemas"}

\* The members array of the object has an entry without a value property,
\* which normalisation rejects.
HasMalformedMember(obj) ==
    /\ "members" \in DOMAIN obj
    /\ obj["members"].t = "array"
    /\ \E i \in 1..Len(obj["members"].items) :
          ~(obj["members"].items[i].t = "object"
            /\ "value" \in DOMAIN obj["members"].items[i].o)

\* What a no-path replace with the object obj makes of the locals before.
NoPathObjectOutcome(obj, before, after) ==
    /\ after.displayName =
          IF "displayName" \in DOMAIN obj /\ obj["displayName"].t = "string"
          THEN obj["displayName"] ELSE before.displayName
    /\ after.externalId =
          IF "externalId" \in DOMAIN obj
          THEN (IF obj["externalId"].t = "string" THEN obj["externalId"] ELSE Null)
          ELSE before.externalId
    /\ IF "members" \in DOMAIN obj /\ obj["members"].t = "array"
       THEN /\ NoDuplicateValues(after.members)
            /\ {after.members[k].value : k \in 1..Len(after.members)}
                  = {obj["members"].items[i].o["value"] :
                        i \in 1..Len(obj["members"].items)}
       ELSE after.members = before.members
    /\ DOMAIN after.rawPayload = DOMAIN before.rawPayload \cup (DOMAIN obj \ NamedKeys)
    /\ \A k \in DOMAIN after.rawPayload :
          after.rawPayload[k] = IF k \in DOMAIN obj \ NamedKeys
                                THEN obj[k] ELSE before.rawPayload[k]

\* C22: a replace without a path sets displayName and nothing else for a
\* string value; for an object value it sets displayName iff the object has a
\* string displayName, externalId iff the key is present (null for a
\* non-string), the member list iff members is an array (normalised and
\* de-duplicated), and copies every other key but schemas into the payload,
\* keeping the payload keys it does not mention; a number, a boolean, null or
\* a missing value is rejected with 400 invalidValue.
C22_NoPathReplace ==
    IsNoPathReplace =>
        CASE gLastOp.value.t = "string" ->
                /\ GroupAccepted
                /\ gWork = [gPrev EXCEPT !.displayName = gLastOp.value]
          [] gLastOp.value.t = "object" ->
                IF HasMalformedMember(gLastOp.value.o)
                THEN GroupRejected("invalidValue") /\ gWork = gPrev
                ELSE GroupAccepted /\ NoPathObjectOutcome(gLastOp.value.o, gPrev, gWork)
          [] gLastOp.value.t \in {"number", "boolean", "null", "undefined"} ->
                GroupRejected("invalidValue") /\ gWork = gPrev
          [] OTHER -> TRUE

\* The object {displayName, externalId: 7, members, custom, schemas} was
\* applied to a group with external id grp-001 and payload {custom: old}.
C22_Witness ==
    /\ IsNoPathReplace
    /\ GroupAccepted
    /\ gLastOp.value.t = "object"
    /\ "schemas" \in DOMAIN gLastOp.value.o
    /\ gPrev.externalId = Str("ext-999")
    /\ gPrev.rawPayload = ("custom" :> Str("old"))
    /\ gWork.displayName = Str("Sales")
    /\ gWork.externalId = Null
    /\ gWork.members = <<StoredBare("u2")>>
    /\ gWork.rawPayload = ("custom" :> Str("data"))

-----------------------------------------------------------------------------
(* UserPatchEngine: dot-notation paths *)

\* The last operation carried a path parent.child (no URN, no filter).
IsDotOp ==
    /\ uN > 0
    /\ UserOpKind \in {"add", "replace", "remove"}
    /\ HasDot(uLastOp.path)
    /\ ~IsExtensionPath(uLastOp.path)
    /\ ~IsValuePath(uLastOp.path)

\* The payload keys that name the parent, in any letter case.
ParentKeys(payload) ==
    {k \in DOMAIN payload : ToLowerCase(k) = ToLowerCase(uLastOp.path.attr)}

\* after is before except that key holds v.
SameBut(before, after, key, v) ==
    /\ DOMAIN after = DOMAIN before \cup {key}
    /\ after[key] = v
    /\ \A k \in DOMAIN before \ {key} : after[k] = before[k]

\* add or replace with verbosePatch: the child is set inside the parent
\* found without regard to case; a parent that is absent (or is not an
\* object) becomes an object holding the child.
DotWriteOutcome(before, after) ==
    LET child == uLastOp.path.sub
    IN  IF ParentKeys(before) = {}
        THEN SameBut(before, after, uLastOp.path.attr, Obj(child :> uLastOp.value))
        ELSE \E k \in ParentKeys(before) :
                IF before[k].t = "object"
                THEN /\ SameBut(before, after, k, after[k])
                     /\ after[k].t = "object"
                     /\ SameBut(before[k].o, after[k].o, child, uLastOp.value)
                ELSE SameBut(before, after, k, Obj(child :> uLastOp.value))

\* remove with verbosePatch: only the child goes.
DotRemoveOutcome(before, after) ==
    LET child == uLastOp.path.sub
    IN  IF \E k \in ParentKeys(before) : before[k].t = "object"
        THEN \E k \in ParentKeys(before) :
                /\ before[k].t = "object"
                /\ SameBut(before, after, k, after[k])
                /\ after[k].t = "object"
                /\ DOMAIN after[k].o = DOMAIN before[k].o \ {child}
                /\ \A c \in DOMAIN after[k].o : after[k].o[c] = before[k].o[c]
        ELSE after = before

\* C23: dot-notation is honoured only with verbosePatch.  With it, an add or
\* replace on parent.child sets the child inside the parent object (found
\* case-insensitively, created if absent) and leaves the other children as
\* they were, and a remove deletes only that child.  Without it, the add or
\* replace leaves the parent attribute as it was and stores the value under
\* the dotted string as a top-level key.
C23_DotNotation ==
    IsDotOp =>
        /\ UserAccepted
        /\ IF uCfg.verbosePatch
           THEN IF UserOpKind = "remove"
                THEN DotRemoveOutcome(uPrev.rawPayload, uWork.rawPayload)
                ELSE DotWriteOutcome(uPrev.rawPayload, uWork.rawPayload)
           ELSE UserOpKind # "remove" =>
                   SameBut(uPrev.rawPayload, uWork.rawPayload,
                           PathString(uLastOp.path), uLastOp.value)

\* replace Name.middleName with verbosePatch on a user whose name holds
\* givenName and familyName: name now holds all three.
C23_Witness ==
    /\ IsDotOp
    /\ uCfg.verbosePatch
    /\ uLastOp.path = DotPath("Name", "middleName")
    /\ "name" \in DOMAIN uPrev.rawPayload
    /\ uPhase = "returned"
    /\ uResult.payload["name"] =
          Obj(("givenName" :> Str("John")) @@ ("familyName" :> Str("Doe"))
              @@ ("middleName" :> Str("Q")))

-----------------------------------------------------------------------------
(* Services: the error boundary *)

\* The engine of request r ran and threw a PatchError.
EngineThrew(r) == sReq[r].engineRan /\ ~sReq[r].engine.ok

\* C24: the repository update is issued only after the patch engine has
\* returned (for users, only after the uniqueness check has passed as well).
\* When the engine throws PatchError(status, scimType, message) the request
\* fails with a SCIM error of that status, scimType and detail and writes
\* nothing; while no request has written, the stored rows are what the
\* requests loaded.
C24_WriteAfterEngine ==
    /\ \A r \in Requests :
          /\ EngineThrew(r) =>
                /\ sReq[r].pc = "failed"
                /\ sReq[r].error.status = sReq[r].engine.err.status
                /\ sReq[r].error.body.scimType = sReq[r].engine.err.scimType
                /\ sReq[r].error.body.detail = sReq[r].engine.err.message
                /\ ~sReq[r].wrote
          /\ sReq[r].wrote =>
                /\ sReq[r].engineRan /\ sReq[r].engine.ok
                /\ sReq[r].kind = "user" => sReq[r].unique
    /\ (\A q \in Requests : ~sReq[q].wrote) =>
          \A r \in Requests :
             sReq[r].loaded.exists =>
                IF sReq[r].kind = "group" THEN sGroup = sReq[r].loaded
                ELSE sUser = sReq[r].loaded

\* A user request whose second operation was rejected by the engine failed
\* with 400 invalidValue while the stored user kept its title.
C24_Witness ==
    \E r \in Requests :
       /\ sReq[r].kind = "user"
       /\ EngineThrew(r)
       /\ Len(sReq[r].operations) = 2
       /\ sReq[r].pc = "failed"
       /\ sReq[r].error.status = 400
       /\ sReq[r].error.body.scimType = "invalidValue"
       /\ sUser = StoredUser

-----------------------------------------------------------------------------
(* Both engines: the operation token *)

PatchOpNames == {"add", "replace", "remove"}

OpNotSupported == PatchError(400, "invalidValue", "op not supported")

\* C25: both engines compare the op token with add, replace and remove
\* without regard to letter case; an operation whose op is missing or is any
\* other word ends the call with PatchError 400 invalidValue, whatever its
\* path and value and whatever operations were handled before it, and an
\* operation whose op is one of the three in any letter case is never
\* rejected as unsupported.
C25_OpTokenChecked ==
    /\ gN > 0 =>
          (GroupOpKind(gLastOp) \notin PatchOpNames
              <=> gPhase = "thrown" /\ gErr = OpNotSupported)
    /\ uN > 0 =>
          (UserOpKind \notin PatchOpNames
              <=> uPhase = "thrown" /\ uErr = OpNotSupported)

\* An unknown op word that carries a path and a value was rejected as the
\* second operation, after a first operation that changed the group.
C25_Witness ==
    /\ gN = 2
    /\ gLastOp = Op("bogus", Path("members"), Arr(<<MemberRef("u1")>>))
    /\ gPrev # GroupLocals(gState.displayName, gState.externalId,
                           gState.members, gState.rawPayload)
    /\ GroupRejected("invalidValue")

-----------------------------------------------------------------------------
(* Both engines: apply is a fold *)

\* The state a caller builds from a GroupPatchResult: payload is the next
\* rawPayload.
GroupStateFrom(result) ==
    GroupLocals(result.displayName, result.externalId, result.members,
                result.rawPayload)

\* The state a caller builds from a UserPatchResult.
UserStateFrom(result) ==
    UserState(result.extractedFields.userName, result.extractedFields.displayName,
              result.extractedFields.externalId, result.extractedFields.active,
              result.payload)

\* apply(ops1 ++ ops2, s, c), when it returns, is apply(ops2, s1, c).
GroupSplitAgrees(ops1, ops2, s, c) ==
    LET whole == GroupApply(ops1 \o ops2, s, c)
        first == GroupApply(ops1, s, c)
    IN  whole.ok =>
           /\ first.ok
           /\ GroupApply(ops2, GroupStateFrom(first.st), c) = whole

UserSplitAgrees(ops1, ops2, s, c) ==
    LET whole == UserApply(ops1 \o ops2, s, c)
        first == UserApply(ops1, s, c)
    IN  whole.ok =>
           /\ first.ok
           /\ UserApply(ops2, UserStateFrom(first.st), c) = whole

\* The three ways of cutting a list of two operations.
GroupSplitsAgree(o1, o2, s, c) ==
    /\ GroupSplitAgrees(<<>>, <<o1, o2>>, s, c)
    /\ GroupSplitAgrees(<<o1>>, <<o2>>, s, c)
    /\ GroupSplitAgrees(<<o1, o2>>, <<>>, s, c)

UserSplitsAgree(o1, o2, s, c) ==
    /\ UserSplitAgrees(<<>>, <<o1, o2>>, s, c)
    /\ UserSplitAgrees(<<o1>>, <<o2>>, s, c)
    /\ UserSplitAgrees(<<o1, o2>>, <<>>, s, c)

\* A replace of displayName by a string, the path in any letter case.
IsDisplayNameWrite(operation) ==
    /\ ToLowerCase(operation.op) = "replace"
    /\ PathIs(PathToLowerCase(operation.path), "displayname")
    /\ operation.value.t = "string"

\* C26: both engines fold the operations from left to right.  Whenever
\* apply(ops1 ++ ops2, s, c) returns, its result is that of apply(ops2, s1, c)
\* with s1 built from the result of apply(ops1, s, c): for every call that
\* returned, cut before its last operation, and for every list of two
\* operations on every state a call starts from, cut at each place.  A
\* replace of displayName that comes last decides the returned displayName.
C26_ApplyIsFold ==
    /\ gPhase = "returned" /\ gN > 0 =>
          /\ GroupApply(<<gLastOp>>, GroupStateFrom(gPrev), gCfg) = Ok(gWork)
          /\ IsDisplayNameWrite(gLastOp) => gWork.displayName = gLastOp.value
    /\ uPhase = "returned" /\ uN > 0 =>
          /\ LET again == UserApply(<<uLastOp>>, UserStateFrom(UserResult(uPrev)), uCfg)
             IN  again.ok /\ again.st = uResult
          /\ IsDisplayNameWrite(uLastOp) =>
                uResult.extractedFields.displayName = uLastOp.value
    /\ gPhase = "idle" =>
          \A o1, o2 \in GroupOps : GroupSplitsAgree(o1, o2, gState, gCfg)
    /\ uPhase = "idle" =>
          \A o1, o2 \in UserOps : UserSplitsAgree(o1, o2, uState, uCfg)

\* A call returned after two operations of which the first had changed the
\* active flag and the payload, and the second replaced displayName.
C26_Witness ==
    /\ uPhase = "returned"
    /\ uN = 2
    /\ uPrev.active # uState0.active
    /\ uPrev.rawPayload # uState0.rawPayload
    /\ IsDisplayNameWrite(uLastOp)
    /\ uResult.extractedFields.displayName = uLastOp.value
    /\ uResult.extractedFields.active = uPrev.active

-----------------------------------------------------------------------------
(* Services: concurrent group PATCH *)

\* The member values of the stored group.
StoredValues == {sGroup.members[i].value : i \in 1..Len(sGroup.members)}

\* Request r is a group PATCH with these operations that answered 200.
GroupPatchDone(r, operations) ==
    /\ sReq[r].kind = "group"
    /\ sReq[r].operations = operations
    /\ sReq[r].pc = "done"

\* C27: no update is lost under concurrent group PATCH.  When two requests
\* on one group, one adding member u3 and the other adding member u4, have
\* both completed successfully, the stored member list contains u3 and u4,
\* however their steps (load, apply, resolve members, write) interleaved.
C27_NoLostUpdate ==
    \A r1, r2 \in Requests :
       GroupPatchDone(r1, AddU3) /\ GroupPatchDone(r2, AddU4) =>
          {Str("u3"), Str("u4")} \subseteq StoredValues

-----------------------------------------------------------------------------
(* UserPatchEngine: displayName in the result *)

\* payload.displayName, an absent key counted as null.
PayloadDisplayName(payload) ==
    IF "displayName" \in DOMAIN payload THEN payload["displayName"] ELSE Null

\* The state's displayName and its rawPayload.displayName agree.
DisplayNameAgrees(state) == PayloadDisplayName(state.rawPayload) = state.displayName

\* C28: the extracted displayName and the payload stay consistent.  For
\* every input state whose rawPayload.displayName agrees with its displayName
\* (an absent key counted as null) and every operation sequence on which
\* UserPatchEngine.apply returns, extractedFields.displayName equals
\* payload.displayName (an absent key counted as null).
C28_DisplayNameConsistent ==
    uPhase = "returned" /\ DisplayNameAgrees(uState0) =>
       uResult.extractedFields.displayName = PayloadDisplayName(uResult.payload)

-----------------------------------------------------------------------------
(* GroupPatchEngine: a remove whose value is not a non-empty array *)

\* A remove with path members (any letter case) whose value is one member
\* object rather than an array, or an empty array.
IsSingleOrEmptyRemove(operation) ==
    /\ GroupOpKind(operation) = "remove"
    /\ PathIs(PathToLowerCase(operation.path), "members")
    /\ \/ operation.value.t = "object" /\ "value" \in DOMAIN operation.value.o
       \/ operation.value.t = "array" /\ Len(operation.value.items) = 0

\* The member values such a value names.
NamedValues(value) ==
    IF value.t = "object" THEN {value.o["value"]} ELSE {}

\* C29: a remove with path members that carries a value never removes a
\* member the value does not name.  When the value is a single member object
\* {value: X} rather than an array, or an empty array, every member of the
\* list that the value does not name is still in the list afterwards, so the
\* list is not emptied.
C29_ValueRemoveKeepsUnnamed ==
    (GroupHandled /\ IsSingleOrEmptyRemove(gLastOp)) =>
        \A i \in 1..Len(gPrev.members) :
           gPrev.members[i].value \notin NamedValues(gLastOp.value) =>
              \E j \in 1..Len(gWork.members) : gWork.members[j] = gPrev.members[i]

-----------------------------------------------------------------------------
(* GroupPatchEngine: what an operation leaves alone *)

\* The last operation was handled without a throw.
GroupSucceeded == GroupHandled /\ gPhase # "thrown"

\* A replace whose path is the given attribute name, in any letter case.
IsReplaceOn(operation, name) ==
    /\ GroupOpKind(operation) = "replace"
    /\ PathIs(PathToLowerCase(operation.path), name)

SameDisplayFields ==
    /\ gWork.displayName = gPrev.displayName
    /\ gWork.externalId = gPrev.externalId
    /\ gWork.rawPayload = gPrev.rawPayload

\* C30: an add or a remove that succeeds leaves displayName, externalId and
\* the payload exactly as they were; a replace on path displayName or
\* externalId leaves the member list and the payload unchanged; a replace on
\* path members leaves displayName, externalId and the payload unchanged.
C30_GroupFrame ==
    GroupSucceeded =>
       /\ GroupOpKind(gLastOp) \in {"add", "remove"} => SameDisplayFields
       /\ IsReplaceOn(gLastOp, "displayname") \/ IsReplaceOn(gLastOp, "externalid") =>
             /\ gWork.members = gPrev.members
             /\ gWork.rawPayload = gPrev.rawPayload
       /\ IsReplaceOn(gLastOp, "members") => SameDisplayFields

\* On a group with a payload, whose displayName an earlier replace had
\* changed, an add put a new member on the list and left the rest alone.
C30_Witness ==
    /\ GroupSucceeded
    /\ gN = 2
    /\ GroupOpKind(gLastOp) = "add"
    /\ Len(gWork.members) > Len(gPrev.members)
    /\ gPrev.displayName # gState.displayName
    /\ gPrev.rawPayload # EmptyObj
    /\ SameDisplayFields

====
